---- MODULE Spec2Model ----
(***************************************************************************)
(* Benchmark results analysis pipeline of JCacheX (benchmarks/*.py):        *)
(* identifier classification, structured and free-text ingestion, unit     *)
(* conversion, the suite -> implementation -> operation_key aggregation,   *)
(* composite scoring and ranking.                                          *)
(*                                                                         *)
(* Python strings that the code inspects character by character            *)
(* (benchmark names, numeric text) are sequences of one-character strings; *)
(* labels the code only compares for equality are TLA+ strings.            *)
(***************************************************************************)
EXTENDS Integers, Sequences, FiniteSets, TLC

VARIABLES
    benchmark_name,   \* classifier: the identifier handed to BenchmarkResult
    n_tokens,         \* classifier: vocabulary tokens benchmark_name is made of
    entry_threads,    \* classifier: the entry's 'threads' value the object is built with
    benchmark_result, \* classifier: << the constructed BenchmarkResult >>, << >> before
    thread_count,     \* classifier: << what _extract_thread_count returned >>, << >> before
    pc,               \* main(): "listing", "parsed", "reported"; "idle" when not run
    listing,          \* parse_all_results: file names os.listdir has yet to yield
    current,          \* _parse_suite_results: << the open file >>, << >> between files
    read_result,      \* _parse_suite_results: the entry `for result in data` read last
    results,          \* EnhancedBenchmarkParser.results: (suite, impl, operation_key) -> record
    first_entry,      \* history: (suite, impl, operation_key) -> the first entry stored there
    last_entry,       \* history: (suite, impl, operation_key) -> the last entry stored there
    stderr,           \* files _parse_suite_results printed "Error parsing" for
    overall_scores,   \* _generate_cross_suite_comparison: impl -> composite score
    ranking,          \* _generate_cross_suite_comparison: the printed rows, in order
    lines,            \* analyze-results: the lines of the *_results.txt file, as written
    text_pc,          \* analyze-results main(): "start", "listed", "writing" (at a file, not yet
                      \* read), "parsed", "raised", "exit", "analyzed", "done"
    all_results,      \* analyze-results main(): the records parsed so far
    analysis,         \* analyze-results main(): the dict analyze_results returned, None before
    results_dir,      \* analyze-results main(): the files of args.results_dir, None when it
                      \* does not exist
    result_files,     \* analyze-results main(): the result files the loop has yet to reach
    reports,          \* analyze-results main(): the report files written to the output directory
    gen_pc,           \* enhanced_analysis_generator: "calls", "parsed", "ready", "written"; "idle" when not run
    performance_data, \* JMHResultParser.performance_data: the sources, each (cache type, operation) -> metric
    summary,          \* PerformanceAnalysisGenerator.summary: (cache key, operation) -> entry, None before
    gaps,             \* PerformanceAnalysisGenerator.gaps: (cache key, operation) -> gap, None before
    gap_calls,        \* the calls of calculate_performance_gap made so far, with what each returned
    template_content, \* the template file: the lines it was written from (indices of TemplateLines)
    populated_content, \* what populate_placeholders returned, None before
    source_files,     \* process_all_results: the matched lines of the files parsed so far, per file
    metric_call       \* a call of get_performance_metric with what it returned, None before

classifyVars == << benchmark_name, n_tokens, entry_threads, benchmark_result, thread_count >>
parseVars == << listing, current, read_result, results, first_entry, last_entry, stderr >>
reportVars == << overall_scores, ranking >>
textVars == << lines, text_pc, all_results, analysis, results_dir, result_files, reports >>
generatorVars == << gen_pc, performance_data, summary, gaps, gap_calls, template_content,
                   populated_content, source_files, metric_call >>
vars == << classifyVars, pc, parseVars, reportVars, textVars, generatorVars >>

\* Python's None, as a tagged value like every other value of the model
NoneVal == [k |-> "None"]

\* ------------------------------------------------------------------ bounds
\* number of vocabulary tokens an enumerated benchmark name is made of
MaxTokens == 2
\* number of records the aggregation holds in an enumerated parser run
MaxRecords == 3
\* number of records the aggregation holds in an enumerated scoring run
MaxScoreRecords == 5
\* number of lines of an enumerated result text file
MaxLines == 2
\* number of calls of calculate_performance_gap in an enumerated run
MaxGapCalls == 2
\* number of lines of an enumerated template
MaxTemplateLines == 3
\* number of files of an enumerated results directory of analyze-results.py
MaxFiles == 2
\* number of vocabulary tokens a name handed to _extract_thread_count is made of
MaxThreadTokens == 3
\* number of result files process_all_results parses in an enumerated run
MaxSources == 3

\* ----------------------------------------------------------- str helpers
\* str.lower() on one character (ASCII letters; other characters unchanged)
LowerTable ==
    "A" :> "a" @@ "B" :> "b" @@ "C" :> "c" @@ "D" :> "d" @@ "E" :> "e" @@ "F" :> "f" @@
    "G" :> "g" @@ "H" :> "h" @@ "I" :> "i" @@ "J" :> "j" @@ "K" :> "k" @@ "L" :> "l" @@
    "M" :> "m" @@ "N" :> "n" @@ "O" :> "o" @@ "P" :> "p" @@ "Q" :> "q" @@ "R" :> "r" @@
    "S" :> "s" @@ "T" :> "t" @@ "U" :> "u" @@ "V" :> "v" @@ "W" :> "w" @@ "X" :> "x" @@
    "Y" :> "y" @@ "Z" :> "z"

lower_char(ch) == IF ch \in DOMAIN LowerTable THEN LowerTable[ch] ELSE ch

\* str.lower()
lower(s) == [i \in 1..Len(s) |-> lower_char(s[i])]

\* `sub in s` for Python strings
Contains(sub, s) ==
    \E i \in 0..(Len(s) - Len(sub)) : \A j \in 1..Len(sub) : s[i + j] = sub[j]

\* s.split('.')[-1]: the text after the last '.', the whole string without one
LastSegment(s) ==
    LET dots == {i \in 1..Len(s) : s[i] = "."}
        last == IF dots = {} THEN 0 ELSE CHOOSE i \in dots : \A k \in dots : k <= i
    IN  SubSeq(s, last + 1, Len(s))

\* first row of an ordered (token, label) table whose token occurs in s, else 0
FirstMatch(tbl, s) ==
    LET hits == {i \in 1..Len(tbl) : Contains(tbl[i][1], s)}
    IN  IF hits = {} THEN 0 ELSE CHOOSE i \in hits : \A k \in hits : i <= k

\* ------------------------------------------------- BenchmarkResult tables
\* jcachex_profiles dict, in insertion (= iteration) order
jcachex_profiles ==
    << << <<"j","c","a","c","h","e","x","d","e","f","a","u","l","t">>, "JCacheX-Default" >>,
       << <<"j","c","a","c","h","e","x","r","e","a","d","h","e","a","v","y">>, "JCacheX-ReadHeavy" >>,
       << <<"j","c","a","c","h","e","x","w","r","i","t","e","h","e","a","v","y">>, "JCacheX-WriteHeavy" >>,
       << <<"j","c","a","c","h","e","x","m","e","m","o","r","y","e","f","f","i","c","i","e","n","t">>, "JCacheX-MemoryEfficient" >>,
       << <<"j","c","a","c","h","e","x","h","i","g","h","p","e","r","f","o","r","m","a","n","c","e">>, "JCacheX-HighPerformance" >>,
       << <<"j","c","a","c","h","e","x","s","e","s","s","i","o","n","c","a","c","h","e">>, "JCacheX-SessionCache" >>,
       << <<"j","c","a","c","h","e","x","a","p","i","c","a","c","h","e">>, "JCacheX-ApiCache" >>,
       << <<"j","c","a","c","h","e","x","c","o","m","p","u","t","e","c","a","c","h","e">>, "JCacheX-ComputeCache" >>,
       << <<"j","c","a","c","h","e","x","m","l","o","p","t","i","m","i","z","e","d">>, "JCacheX-MlOptimized" >>,
       << <<"j","c","a","c","h","e","x","z","e","r","o","c","o","p","y">>, "JCacheX-ZeroCopy" >>,
       << <<"j","c","a","c","h","e","x","h","a","r","d","w","a","r","e","o","p","t","i","m","i","z","e","d">>, "JCacheX-HardwareOptimized" >>,
       << <<"j","c","a","c","h","e","x","d","i","s","t","r","i","b","u","t","e","d">>, "JCacheX-Distributed" >> >>

\* the if/elif chain after the profile loop
other_implementations ==
    << << <<"c","a","f","f","e","i","n","e">>, "Caffeine" >>,
       << <<"e","h","c","a","c","h","e">>, "EhCache" >>,
       << <<"c","a","c","h","e","2","k">>, "Cache2k" >>,
       << <<"c","o","n","c","u","r","r","e","n","t","m","a","p">>, "ConcurrentHashMap" >>,
       << <<"j","c","a","c","h","e">>, "JCache" >> >>

\* operation tokens tested before 'get'
specific_operations ==
    << << <<"e","x","t","r","e","m","e","c","o","n","t","e","n","t","i","o","n">>, "EXTREME_CONTENTION" >>,
       << <<"m","e","m","o","r","y","p","r","e","s","s","u","r","e">>, "MEMORY_PRESSURE" >>,
       << <<"z","i","p","f","i","a","n">>, "ZIPFIAN_ACCESS" >>,
       << <<"e","v","i","c","t","i","o","n","s","t","r","e","s","s">>, "EVICTION_STRESS" >>,
       << <<"m","i","x","e","d","r","e","a","d">>, "MIXED_READ" >>,
       << <<"m","i","x","e","d","w","r","i","t","e">>, "MIXED_WRITE" >>,
       << <<"m","i","x","e","d","r","e","m","o","v","e">>, "MIXED_REMOVE" >>,
       << <<"s","u","s","t","a","i","n","e","d","l","o","a","d">>, "SUSTAINED_LOAD" >>,
       << <<"g","c","p","r","e","s","s","u","r","e">>, "GC_PRESSURE" >>,
       << <<"m","e","m","o","r","y","l","e","a","k","t","e","s","t">>, "MEMORY_LEAK_TEST" >>,
       << <<"b","u","r","s","t","l","o","a","d">>, "BURST_LOAD" >> >>

\* operation tokens tested after 'put'
generic_operations ==
    << << <<"r","e","m","o","v","e">>, "REMOVE_LATENCY" >>,
       << <<"m","i","x","e","d">>, "MIXED_THROUGHPUT" >>,
       << <<"r","e","a","d","h","e","a","v","y">>, "READ_HEAVY" >>,
       << <<"w","r","i","t","e","h","e","a","v","y">>, "WRITE_HEAVY" >>,
       << <<"h","i","g","h","c","o","n","t","e","n","t","i","o","n">>, "HIGH_CONTENTION" >> >>

s_get == <<"g","e","t">>
s_put == <<"p","u","t">>
s_throughput == <<"t","h","r","o","u","g","h","p","u","t">>

\* ------------------------------------------------------- BenchmarkResult
\* benchmark_name.split('.')[-1].lower()
method_name(name) == lower(LastSegment(name))

\* a classifier that tests the library tokens before the profile tokens
_extract_cache_implementation_GenericFirst(name) ==
    LET m == method_name(name)
        p == FirstMatch(jcachex_profiles, m)
        o == FirstMatch(other_implementations, m)
    IN  IF o # 0 THEN other_implementations[o][2]
        ELSE IF p # 0 THEN jcachex_profiles[p][2]
        ELSE "Unknown"

_extract_cache_implementation(name) ==
    LET m == method_name(name)
        p == FirstMatch(jcachex_profiles, m)
        o == FirstMatch(other_implementations, m)
    IN  IF p # 0 THEN jcachex_profiles[p][2]
        ELSE IF o # 0 THEN other_implementations[o][2]
        ELSE "Unknown"

\* a classifier that tests 'get' and 'put' before the specific tokens
_extract_operation_type_GenericFirst(name) ==
    LET m == method_name(name)
        a == FirstMatch(specific_operations, m)
        b == FirstMatch(generic_operations, m)
    IN  IF Contains(s_get, m)
        THEN IF Contains(s_throughput, m) THEN "GET_THROUGHPUT" ELSE "GET_LATENCY"
        ELSE IF Contains(s_put, m)
             THEN IF Contains(s_throughput, m) THEN "PUT_THROUGHPUT" ELSE "PUT_LATENCY"
        ELSE IF a # 0 THEN specific_operations[a][2]
        ELSE IF b # 0 THEN generic_operations[b][2]
        ELSE "UNKNOWN"

\* a classifier without the final `return 'UNKNOWN'`
_extract_operation_type_NoFallback(name) ==
    LET m == method_name(name)
        a == FirstMatch(specific_operations, m)
        b == FirstMatch(generic_operations, m)
    IN  IF a # 0 THEN specific_operations[a][2]
        ELSE IF Contains(s_get, m)
             THEN IF Contains(s_throughput, m) THEN "GET_THROUGHPUT" ELSE "GET_LATENCY"
        ELSE IF Contains(s_put, m)
             THEN IF Contains(s_throughput, m) THEN "PUT_THROUGHPUT" ELSE "PUT_LATENCY"
        ELSE IF b # 0 THEN generic_operations[b][2]
        ELSE "None"

_extract_operation_type(name) ==
    LET m == method_name(name)
        a == FirstMatch(specific_operations, m)
        b == FirstMatch(generic_operations, m)
    IN  IF a # 0 THEN specific_operations[a][2]
        ELSE IF Contains(s_get, m)
             THEN IF Contains(s_throughput, m) THEN "GET_THROUGHPUT" ELSE "GET_LATENCY"
        ELSE IF Contains(s_put, m)
             THEN IF Contains(s_throughput, m) THEN "PUT_THROUGHPUT" ELSE "PUT_LATENCY"
        ELSE IF b # 0 THEN generic_operations[b][2]
        ELSE "UNKNOWN"

\* f"{operation_type}_{threads}T": the operation and the thread count it is
\* formatted from (the text is one-to-one with the pair)
operation_key(operation_type, threads) == << operation_type, threads >>

\* the benchmark names of the enumerated result files
FileNames ==
    { <<"x",".","j","c","a","c","h","e","x","Z","e","r","o","C","o","p","y","G","e","t","C","o","l","d">>, <<"f","o","o",".","b","a","r","1","2","3">>, <<"b","e","n","c","h",".","c","a","f","f","e","i","n","e","G","e","t">>,
      <<"b",".","j","c","a","c","h","e","x","D","e","f","a","u","l","t","G","e","t">>, <<"b",".","c","a","f","f","e","i","n","e","G","e","t">>, <<"b",".","c","a","f","f","e","i","n","e","P","u","t">>,
      <<"b",".","j","c","a","c","h","e","x","D","e","f","a","u","l","t","G","e","t","T","h","r","o","u","g","h","p","u","t">>, <<"b",".","c","a","f","f","e","i","n","e","G","e","t","T","h","r","o","u","g","h","p","u","t">>,
      <<"b",".","j","c","a","c","h","e","x","D","e","f","a","u","l","t","R","e","a","d","H","e","a","v","y">>, <<"b",".","c","a","f","f","e","i","n","e","R","e","a","d","H","e","a","v","y">>,
      <<"b",".","j","c","a","c","h","e","x","D","e","f","a","u","l","t","E","x","t","r","e","m","e","C","o","n","t","e","n","t","i","o","n">>, <<"b",".","c","a","f","f","e","i","n","e","E","x","t","r","e","m","e","C","o","n","t","e","n","t","i","o","n">>,
      <<"b",".","j","c","a","c","h","e","x","D","e","f","a","u","l","t","S","u","s","t","a","i","n","e","d","L","o","a","d">>, <<"b",".","c","a","f","f","e","i","n","e","S","u","s","t","a","i","n","e","d","L","o","a","d">> }

\* self._extract_cache_implementation() and self._extract_operation_type() of
\* the names of FileNames, evaluated once
cache_impl_of == [name \in FileNames |-> _extract_cache_implementation(name)]
operation_type_of == [name \in FileNames |-> _extract_operation_type(name)]

\* BenchmarkResult.__init__
BenchmarkResult(name, score, error, unit, suite_type, threads) ==
    LET cache_impl == IF name \in FileNames THEN cache_impl_of[name]
                      ELSE _extract_cache_implementation(name)
        operation_type == IF name \in FileNames THEN operation_type_of[name]
                          ELSE _extract_operation_type(name)
    IN  [ benchmark_name |-> name, score |-> score, error |-> error, unit |-> unit,
          suite_type |-> suite_type, threads |-> threads,
          cache_impl |-> cache_impl,
          operation_type |-> operation_type,
          operation_key |-> operation_key(operation_type, threads) ]

\* ----------------------------------------------------------------- numbers
\* A Python number is m * 10^e, kept with m not divisible by 10 (zero is m = 0,
\* e = 0), so that equal numbers are equal values.  Arithmetic is exact decimal
\* arithmetic; binary rounding of floats is not modelled.
RECURSIVE Norm(_, _)
Norm(m, e) ==
    IF m = 0 THEN [k |-> "num", m |-> 0, e |-> 0]
    ELSE IF m % 10 = 0 THEN Norm(m \div 10, e + 1)
    ELSE [k |-> "num", m |-> m, e |-> e]

Num(m, e) == Norm(m, e)
Zero == Num(0, 0)

RECURSIVE Pow10(_)
Pow10(n) == IF n <= 0 THEN 1 ELSE 10 * Pow10(n - 1)

MinExp(a, b) == IF a.e <= b.e THEN a.e ELSE b.e
\* the mantissa of a at exponent e <= a.e
Mant(a, e) == IF a.m = 0 THEN 0 ELSE a.m * Pow10(a.e - e)

Less(a, b) == Mant(a, MinExp(a, b)) < Mant(b, MinExp(a, b))
Add(a, b) == Norm(Mant(a, MinExp(a, b)) + Mant(b, MinExp(a, b)), MinExp(a, b))
Sub(a, b) == Norm(Mant(a, MinExp(a, b)) - Mant(b, MinExp(a, b)), MinExp(a, b))
\* a * (m * 10^e)
Times(a, m, e) == Norm(a.m * m, a.e + e)

\* min(a, b) and max(a, b) of Python: the first argument on a tie
py_min(a, b) == IF Less(b, a) THEN b ELSE a
py_max(a, b) == IF Less(a, b) THEN b ELSE a

\* truth value of an Optional[float]: None and 0.0 are false
Truthy(x) == x.k = "num" /\ x.m # 0

RECURSIVE Sum(_)
Sum(seq) == IF seq = << >> THEN Zero ELSE Add(Head(seq), Sum(Tail(seq)))

\* --------------------------------------------------------------- float(x)
DigitValue ==
    "0" :> 0 @@ "1" :> 1 @@ "2" :> 2 @@ "3" :> 3 @@ "4" :> 4 @@
    "5" :> 5 @@ "6" :> 6 @@ "7" :> 7 @@ "8" :> 8 @@ "9" :> 9

IsDigit(ch) == ch \in DOMAIN DigitValue

\* the text without a leading '-'
Unsigned(s) == IF s # << >> /\ s[1] = "-" THEN Tail(s) ELSE s

\* float(str) accepts the text: an optional '-', digits with at most one '.',
\* at least one digit.  (float() also accepts exponents, blanks, "inf", "nan";
\* the enumerated texts use none of them.)
IsFloatText(s) ==
    LET u == Unsigned(s) IN
    /\ \A i \in 1..Len(u) : IsDigit(u[i]) \/ u[i] = "."
    /\ Cardinality({i \in 1..Len(u) : u[i] = "."}) <= 1
    /\ \E i \in 1..Len(u) : IsDigit(u[i])

RECURSIVE DigitsValue(_)
DigitsValue(s) ==
    IF s = << >> THEN 0
    ELSE IF s[Len(s)] = "." THEN DigitsValue(SubSeq(s, 1, Len(s) - 1))
    ELSE 10 * DigitsValue(SubSeq(s, 1, Len(s) - 1)) + DigitValue[s[Len(s)]]

\* float(str) of an accepted text
FloatOfText(s) ==
    LET u == Unsigned(s)
        dot == {i \in 1..Len(u) : u[i] = "."}
        frac == IF dot = {} THEN 0 ELSE Len(u) - (CHOOSE i \in dot : TRUE)
        mag == DigitsValue(u)
    IN  Num(IF u = s THEN mag ELSE 0 - mag, 0 - frac)

\* JSON values: a number, a string, null, or no such key
JNum(m, e) == Num(m, e)
JStr(s) == [k |-> "str", s |-> s]
JNull == [k |-> "null"]
Missing == [k |-> "missing"]

\* float(v): [ok, v] or the exception raised
py_float(v) ==
    IF v.k = "num" THEN [ok |-> TRUE, v |-> v]
    ELSE IF v.k = "str"
         THEN IF IsFloatText(v.s) THEN [ok |-> TRUE, v |-> FloatOfText(v.s)]
              ELSE [ok |-> FALSE, exc |-> "ValueError"]
    ELSE [ok |-> FALSE, exc |-> "TypeError"]

\* -------------------------------------------------- _parse_suite_results
\* one entry of a result file
Entry(benchmark, score, scoreError, scoreUnit, threads) ==
    [ benchmark |-> benchmark,
      primaryMetric |-> [k |-> "obj", score |-> score, scoreError |-> scoreError,
                         scoreUnit |-> scoreUnit],
      threads |-> threads ]

\* a conversion that forgets the error margin: only the score is multiplied
ParseMetric_ScoreOnly(result, field) ==
    LET pm == result.primaryMetric IN
    IF pm.k # "obj" THEN Zero
    ELSE IF pm[field].k = "missing" THEN Zero
    ELSE IF ~py_float(pm[field]).ok THEN Zero
    ELSE IF pm.scoreUnit.k = "missing" THEN Zero
    ELSE IF pm.scoreUnit.s = "ops/ns" /\ field = "score"
         THEN Times(py_float(pm[field]).v, 1, 9)
    ELSE py_float(pm[field]).v

\* the first try block (field = "score") and the second (field = "scoreError"):
\* the converted number, 0.0 on ValueError, TypeError or KeyError
ParseMetric(result, field) ==
    LET pm == result.primaryMetric IN
    IF pm.k # "obj" THEN Zero
    ELSE IF pm[field].k = "missing" THEN Zero
    ELSE IF ~py_float(pm[field]).ok THEN Zero
    ELSE IF pm.scoreUnit.k = "missing" THEN Zero
    ELSE IF pm.scoreUnit.s = "ops/ns" THEN Times(py_float(pm[field]).v, 1, 9)
    ELSE py_float(pm[field]).v

\* a unit rule that keeps the tag as given
ParseUnit_AsGiven(result) == result.primaryMetric.scoreUnit.s

\* unit = result['primaryMetric']['scoreUnit'], 'ops/ns' shown as 'ops/s'
ParseUnit(result) ==
    IF result.primaryMetric.scoreUnit.s = "ops/ns" THEN "ops/s"
    ELSE result.primaryMetric.scoreUnit.s

\* result.get('threads', 1)
ParseThreads(result) == IF result.threads.k = "missing" THEN 1 ELSE result.threads.v

\* a loop body that lets the ValueError, TypeError or KeyError of a number through
Raises_BadNumber(result) ==
    \/ result.benchmark.k # "str"
    \/ result.primaryMetric.k # "obj"
    \/ result.primaryMetric.scoreUnit.k # "str"
    \/ result.primaryMetric.score.k = "missing"
    \/ result.primaryMetric.scoreError.k = "missing"
    \/ ~py_float(result.primaryMetric.score).ok
    \/ ~py_float(result.primaryMetric.scoreError).ok

\* the loop body raises: result['benchmark'] or the unit lookup is a KeyError,
\* or the name is no string (AttributeError in BenchmarkResult)
Raises(result) ==
    \/ result.benchmark.k # "str"
    \/ result.primaryMetric.k # "obj"
    \/ result.primaryMetric.scoreUnit.k # "str"

\* the BenchmarkResult the loop body builds from an entry that does not raise
ResultOf(suite_type, result) ==
    BenchmarkResult(result.benchmark.s, ParseMetric(result, "score"),
                    ParseMetric(result, "scoreError"), ParseUnit(result),
                    suite_type, ParseThreads(result))

KeyOf(br) == << br.suite_type, br.cache_impl, br.operation_key >>

\* a store that keeps the record a key already holds
StoreResult_KeepFirst(res, br) ==
    [key \in DOMAIN res \cup {KeyOf(br)} |-> IF key \in DOMAIN res THEN res[key] ELSE br]

\* self.results[suite_type][cache_impl][operation_key] = benchmark_result
StoreResult(res, br) ==
    [key \in DOMAIN res \cup {KeyOf(br)} |-> IF key = KeyOf(br) THEN br ELSE res[key]]

\* ------------------------------------------------------------- file names
FileName(stem, suffix) == [stem |-> stem, suffix |-> suffix]
\* filename.endswith('_results.json')
IsResultFile(f) == f.suffix = "_results.json"
\* filename.replace('_results.json', '')
SuiteOf(f) == f.stem

suite_types ==
    << "basic_operations", "throughput", "concurrent_operations",
       "hardcore_stress", "endurance_tests" >>

\* ------------------------------------------ ComprehensiveResultsAnalyzer
cache_implementations ==
    << "JCacheX-Default", "JCacheX-ReadHeavy", "JCacheX-WriteHeavy",
       "JCacheX-MemoryEfficient", "JCacheX-HighPerformance",
       "JCacheX-SessionCache", "JCacheX-ApiCache", "JCacheX-ComputeCache",
       "JCacheX-MlOptimized", "JCacheX-ZeroCopy", "JCacheX-HardwareOptimized",
       "JCacheX-Distributed",
       "Caffeine", "EhCache", "Cache2k", "ConcurrentHashMap", "JCache" >>

\* suite_type in self.results and cache_impl in self.results[suite_type]
InSuite(res, suite_type, cache_impl) ==
    \E key \in DOMAIN res : key[1] = suite_type /\ key[2] = cache_impl

\* _get_throughput_score and _get_latency_score: the record's score, or None
_get_throughput_score(res, suite_type, cache_impl, op_key) ==
    IF << suite_type, cache_impl, op_key >> \in DOMAIN res
    THEN res[<< suite_type, cache_impl, op_key >>].score
    ELSE NoneVal

\* a float so small that `100 - x` rounds to 100.0: |x| < 1e-15 (half the
\* spacing of the floats around 100 is 2^-47, about 7.1e-15)
Absorbed(x) ==
    /\ x.m # 0
    /\ x.e < 0 - 15
    /\ \/ 0 - 15 - x.e > 9
       \/ (IF x.m < 0 THEN 0 - x.m ELSE x.m) < Pow10(0 - 15 - x.e)

\* `100 - get_latency` in floating point; the decimal difference stands for
\* the float where the latency is not absorbed
HundredMinus(get_latency) ==
    IF Absorbed(get_latency) THEN Num(100, 0) ELSE Sub(Num(100, 0), get_latency)

\* a variant without the cap of the throughput score at 100
_calculate_suite_score_Uncapped(res, cache_impl, suite_type) ==
    IF suite_type = "throughput"
    THEN LET throughput_1t ==
                 _get_throughput_score(res, suite_type, cache_impl,
                                       operation_key("GET_THROUGHPUT", 1))
         IN  IF Truthy(throughput_1t) THEN Times(throughput_1t, 1, 0 - 6) ELSE NoneVal
    ELSE IF suite_type = "basic_operations"
    THEN LET get_latency ==
                 _get_throughput_score(res, suite_type, cache_impl,
                                       operation_key("GET_LATENCY", 1))
         IN  IF Truthy(get_latency) THEN py_max(Zero, HundredMinus(get_latency)) ELSE NoneVal
    ELSE Num(50, 0)

_calculate_suite_score(res, cache_impl, suite_type) ==
    IF suite_type = "throughput"
    THEN LET throughput_1t ==
                 _get_throughput_score(res, suite_type, cache_impl,
                                       operation_key("GET_THROUGHPUT", 1))
         IN  IF Truthy(throughput_1t)
             THEN py_min(Times(throughput_1t, 1, 0 - 6), Num(100, 0))
             ELSE NoneVal
    ELSE IF suite_type = "basic_operations"
    THEN LET get_latency ==
                 _get_throughput_score(res, suite_type, cache_impl,
                                       operation_key("GET_LATENCY", 1))
         IN  IF Truthy(get_latency)
             THEN py_max(Zero, HundredMinus(get_latency))
             ELSE NoneVal
    ELSE Num(50, 0)

\* `x or 0`
OrZero(x) == IF Truthy(x) THEN x ELSE Zero

\* the term a weighted suite appends to `scores`: << >> when it appends nothing
WeightedTerm(res, cache_impl, suite_type, tenths) ==
    IF /\ InSuite(res, suite_type, cache_impl)
       /\ Truthy(_calculate_suite_score(res, cache_impl, suite_type))
    THEN << Times(_calculate_suite_score(res, cache_impl, suite_type), tenths, 0 - 1) >>
    ELSE << >>

\* hardcore_score: the hardcore_stress and endurance_tests scores added up
HardcoreScore(res, cache_impl) ==
    Add(IF InSuite(res, "hardcore_stress", cache_impl)
        THEN OrZero(_calculate_suite_score(res, cache_impl, "hardcore_stress"))
        ELSE Zero,
        IF InSuite(res, "endurance_tests", cache_impl)
        THEN OrZero(_calculate_suite_score(res, cache_impl, "endurance_tests"))
        ELSE Zero)

_calculate_overall_score(res, cache_impl) ==
    LET scores ==
            WeightedTerm(res, cache_impl, "basic_operations", 3)
            \o WeightedTerm(res, cache_impl, "throughput", 4)
            \o WeightedTerm(res, cache_impl, "concurrent_operations", 2)
            \o (IF Less(Zero, HardcoreScore(res, cache_impl))
                THEN << Times(Times(HardcoreScore(res, cache_impl), 5, 0 - 1), 1, 0 - 1) >>
                ELSE << >>)
    IN  IF scores # << >> THEN Sum(scores) ELSE NoneVal

_get_performance_grade(score) ==
    IF ~Less(score, Num(90, 0)) THEN "A+"
    ELSE IF ~Less(score, Num(80, 0)) THEN "A"
    ELSE IF ~Less(score, Num(70, 0)) THEN "B+"
    ELSE IF ~Less(score, Num(60, 0)) THEN "B"
    ELSE IF ~Less(score, Num(50, 0)) THEN "C"
    ELSE "D"

\* overall_scores: the implementations of the enumeration whose score is truthy
OverallScores(res) ==
    LET ranked == {i \in 1..Len(cache_implementations) :
                      Truthy(_calculate_overall_score(res, cache_implementations[i]))}
    IN  [cache_impl \in {cache_implementations[i] : i \in ranked} |->
            _calculate_overall_score(res, cache_impl)]

\* overall_scores.items(): the entries in insertion order, which is the order
\* of cache_implementations
RECURSIVE Items(_, _)
Items(scores, i) ==
    IF i > Len(cache_implementations) THEN << >>
    ELSE (IF cache_implementations[i] \in DOMAIN scores
          THEN << [cache_impl |-> cache_implementations[i],
                   score |-> scores[cache_implementations[i]]] >>
          ELSE << >>) \o Items(scores, i + 1)

\* where a stable descending sort puts x into the sorted sequence s: behind
\* every element that is not smaller
InsertDescending(s, x) ==
    LET ahead == Cardinality({j \in 1..Len(s) : ~Less(s[j].score, x.score)})
    IN  SubSeq(s, 1, ahead) \o << x >> \o SubSeq(s, ahead + 1, Len(s))

\* sorted(items, key=lambda x: x[1], reverse=True)
RECURSIVE SortedDescending(_)
SortedDescending(items) ==
    IF items = << >> THEN << >>
    ELSE InsertDescending(SortedDescending(SubSeq(items, 1, Len(items) - 1)),
                          items[Len(items)])

\* the printed rows: enumerate(sorted_scores, 1) with the grade
RankingRows(scores) ==
    LET sorted_scores == SortedDescending(Items(scores, 1))
    IN  [rank \in 1..Len(sorted_scores) |->
            [rank |-> rank, cache_impl |-> sorted_scores[rank].cache_impl,
             score |-> sorted_scores[rank].score,
             grade |-> _get_performance_grade(sorted_scores[rank].score)]]

\* ------------------------------------------------------------- input sets
EmptyMap == [key \in {} |-> NoneVal]

JUnit(u) == [k |-> "str", s |-> u]
JInt(n) == [k |-> "int", v |-> n]

\* the entries a result file of the parser runs may hold (any suite)
SampleEntries(suite_type) ==
    { Entry(JStr(<<"x",".","j","c","a","c","h","e","x","Z","e","r","o","C","o","p","y","G","e","t","C","o","l","d">>), JStr(<<"2",".","1">>), JStr(<<"0",".","0","5">>),
            JUnit("ops/ns"), Missing),
      Entry(JStr(<<"x",".","j","c","a","c","h","e","x","Z","e","r","o","C","o","p","y","G","e","t","C","o","l","d">>), JNum(1523, 0 - 2), JNum(412, 0 - 3),
            JUnit("ns/op"), Missing),
      Entry(JStr(<<"f","o","o",".","b","a","r","1","2","3">>), JNum(3, 0), JNum(1, 0), JUnit("ops/s"), Missing),
      Entry(JStr(<<"b","e","n","c","h",".","c","a","f","f","e","i","n","e","G","e","t">>), JStr(<<"a","b","c">>), JNum(412, 0 - 3),
            JUnit("ns/op"), Missing),
      Entry(JStr(<<"b","e","n","c","h",".","c","a","f","f","e","i","n","e","G","e","t">>), JNum(0 - 3, 0), Missing, JUnit("ns/op"), JInt(4)),
      Entry(JStr(<<"b","e","n","c","h",".","c","a","f","f","e","i","n","e","G","e","t">>), JNull, JNum(5, 0 - 2), JUnit("ops/ns"), Missing),
      Entry(Missing, JNum(3, 0), JNum(1, 0), JUnit("ns/op"), Missing),
      Entry(JStr(<<"b","e","n","c","h",".","c","a","f","f","e","i","n","e","G","e","t">>), JStr(<<"2",".","1">>), JStr(<<"0",".","0","5">>), Missing, Missing),
      [benchmark |-> JStr(<<"b","e","n","c","h",".","c","a","f","f","e","i","n","e","G","e","t">>), primaryMetric |-> Missing,
       threads |-> Missing] }

\* a well-formed entry without a thread count
Measured(name, score, unit) == Entry(JStr(name), score, JNum(1, 0 - 1), JUnit(unit), Missing)

\* the entries a result file of the scoring runs may hold, by suite
ScoreEntries(suite_type) ==
    IF suite_type = "basic_operations"
    THEN { Measured(name, score, "ns/op") :
              name \in {<<"b",".","j","c","a","c","h","e","x","D","e","f","a","u","l","t","G","e","t">>, <<"b",".","c","a","f","f","e","i","n","e","G","e","t">>},
              score \in {JNum(1523, 0 - 2), JNum(150, 0), JNum(0, 0), JNum(1, 0 - 20)} }
         \cup { Measured(<<"b",".","c","a","f","f","e","i","n","e","P","u","t">>, JNum(1523, 0 - 2), "ns/op") }
    ELSE IF suite_type = "throughput"
    THEN { Measured(name, score, "ops/s") :
              name \in {<<"b",".","j","c","a","c","h","e","x","D","e","f","a","u","l","t","G","e","t","T","h","r","o","u","g","h","p","u","t">>, <<"b",".","c","a","f","f","e","i","n","e","G","e","t","T","h","r","o","u","g","h","p","u","t">>},
              score \in {JNum(25, 6), JNum(0 - 25, 6), JNum(0, 0)} }
         \cup { Measured(name, JStr(<<"2",".","1">>), "ops/ns") :
              name \in {<<"b",".","j","c","a","c","h","e","x","D","e","f","a","u","l","t","G","e","t","T","h","r","o","u","g","h","p","u","t">>, <<"b",".","c","a","f","f","e","i","n","e","G","e","t","T","h","r","o","u","g","h","p","u","t">>} }
    ELSE IF suite_type = "concurrent_operations"
    THEN { Measured(name, JNum(3, 6), "ops/s") :
              name \in {<<"b",".","j","c","a","c","h","e","x","D","e","f","a","u","l","t","R","e","a","d","H","e","a","v","y">>, <<"b",".","c","a","f","f","e","i","n","e","R","e","a","d","H","e","a","v","y">>} }
    ELSE IF suite_type = "hardcore_stress"
    THEN { Measured(name, JNum(2, 6), "ops/s") :
              name \in {<<"b",".","j","c","a","c","h","e","x","D","e","f","a","u","l","t","E","x","t","r","e","m","e","C","o","n","t","e","n","t","i","o","n">>,
                        <<"b",".","c","a","f","f","e","i","n","e","E","x","t","r","e","m","e","C","o","n","t","e","n","t","i","o","n">>} }
    ELSE { Measured(name, JNum(1, 6), "ops/s") :
              name \in {<<"b",".","j","c","a","c","h","e","x","D","e","f","a","u","l","t","S","u","s","t","a","i","n","e","d","L","o","a","d">>, <<"b",".","c","a","f","f","e","i","n","e","S","u","s","t","a","i","n","e","d","L","o","a","d">>} }

\* the directory of the parser runs
Directory ==
    { FileName("basic_operations", "_results.json"),
      FileName("throughput", "_results.json"),
      FileName("test_config", ".txt") }

\* the orders in which os.listdir may yield the files of a directory
Listings(dir) ==
    {l \in [1..Cardinality(dir) -> dir] : \A i, j \in DOMAIN l : i # j => l[i] # l[j]}

\* vocabulary the enumerated benchmark names are concatenated from
NameTokens ==
    { <<"j","c","a","c","h","e","x","D","e","f","a","u","l","t">>, <<"j","c","a","c","h","e","x","W","r","i","t","e","H","e","a","v","y">>, <<"j","c","a","c","h","e","x","C","o","m","p","u","t","e","C","a","c","h","e">>,
      <<"j","c","a","c","h","e","x","Z","e","r","o","C","o","p","y">>, <<"j","c","a","c","h","e","x">>, <<"j","c","a","c","h","e">>, <<"c","a","f","f","e","i","n","e">>, <<"c","o","n","c","u","r","r","e","n","t","M","a","p">>,
      <<"G","e","t">>, <<"P","u","t">>, <<"R","e","m","o","v","e">>, <<"M","i","x","e","d">>, <<"T","h","r","o","u","g","h","p","u","t">>, <<"E","x","t","r","e","m","e","C","o","n","t","e","n","t","i","o","n">>,
      <<"S","u","s","t","a","i","n","e","d","L","o","a","d">>, <<"B","u","r","s","t","L","o","a","d">>, <<"M","i","x","e","d","R","e","a","d">>, <<"H","i","g","h","C","o","n","t","e","n","t","i","o","n">>,
      <<"f","o","o",".">>, <<"b","a","r","1","2","3">>, <<"c","a","f","f","e","i","n","e",".">>, <<"g","e","t","H","o","t">> }

\* ------------------------------------------- analyze-results.py: free text
\* The character classes of the pattern (ASCII; "+-" stands for the one
\* character U+00B1 PLUS-MINUS SIGN)
WordChars == DOMAIN LowerTable \cup {LowerTable[ch] : ch \in DOMAIN LowerTable}
                 \cup DOMAIN DigitValue \cup {"_"}
WordDotChars == WordChars \cup {"."}
DigitChars == DOMAIN DigitValue
DigitDotChars == DigitChars \cup {"."}
SpaceChars == {" ", "\t", "\n"}

\* a greedy `[class]+` from position p: the position after the longest run
Run(s, p, class) ==
    IF \A q \in p..Len(s) : s[q] \in class THEN Len(s) + 1
    ELSE CHOOSE q \in p..Len(s) : s[q] \notin class /\ \A r \in p..(q - 1) : s[r] \in class

\* the pieces of the pattern, in order; no two adjacent pieces can take the
\* same character, so the greedy match from a position is the only one
Pieces ==
    << [plus |-> TRUE, class |-> WordChars],
       [plus |-> FALSE, class |-> {"."}],
       [plus |-> TRUE, class |-> WordDotChars],
       [plus |-> TRUE, class |-> SpaceChars],
       [plus |-> TRUE, class |-> WordChars],
       [plus |-> TRUE, class |-> SpaceChars],
       [plus |-> TRUE, class |-> DigitChars],
       [plus |-> TRUE, class |-> SpaceChars],
       [plus |-> TRUE, class |-> DigitDotChars],
       [plus |-> TRUE, class |-> SpaceChars],
       [plus |-> FALSE, class |-> {"+-"}],
       [plus |-> TRUE, class |-> SpaceChars],
       [plus |-> TRUE, class |-> DigitDotChars],
       [plus |-> TRUE, class |-> SpaceChars],
       [plus |-> TRUE, class |-> WordChars],
       [plus |-> FALSE, class |-> {"/"}],
       [plus |-> TRUE, class |-> WordChars] >>

\* the position after one piece matched at p; 0 when it does not match
Step(s, p, piece) ==
    IF p = 0 \/ p > Len(s) \/ s[p] \notin piece.class THEN 0
    ELSE IF piece.plus THEN Run(s, p, piece.class)
    ELSE p + 1

\* << p, the position after piece 1, ..., the position after piece k >>
RECURSIVE Ends(_, _, _)
Ends(s, p, k) ==
    IF k = 0 THEN << p >>
    ELSE CHOOSE ends \in {Append(prev, Step(s, prev[Len(prev)], Pieces[k])) :
                             prev \in {Ends(s, p, k - 1)}} : TRUE

\* re.match of the pattern at position p: the six groups and the end, or no match
MatchAt(s, p) ==
    CHOOSE match \in
        {IF e[18] = 0 THEN [ok |-> FALSE]
         ELSE [ok |-> TRUE,
               benchmark |-> SubSeq(s, e[1], e[4] - 1),
               mode |-> SubSeq(s, e[5], e[6] - 1),
               cnt |-> SubSeq(s, e[7], e[8] - 1),
               score |-> SubSeq(s, e[9], e[10] - 1),
               error |-> SubSeq(s, e[13], e[14] - 1),
               unit |-> SubSeq(s, e[15], e[18] - 1),
               end |-> e[18]] : e \in {Ends(s, p, Len(Pieces))}} : TRUE

\* re.findall(pattern, content): the leftmost match from p on, then the rest
RECURSIVE findall(_, _)
findall(s, p) ==
    IF \A q \in p..Len(s) : ~MatchAt(s, q).ok THEN << >>
    ELSE CHOOSE found \in
             {<< match >> \o findall(s, match.end) :
                 match \in {MatchAt(s, CHOOSE q \in p..Len(s) :
                                          /\ MatchAt(s, q).ok
                                          /\ \A r \in p..(q - 1) : ~MatchAt(s, r).ok)}} : TRUE

\* the dict built of one match; int(cnt) always succeeds on \d+
TextRecord(match) ==
    [benchmark |-> match.benchmark,
     mode |-> match.mode,
     count |-> DigitsValue(match.cnt),
     score |-> py_float(JStr(match.score)).v,
     error |-> py_float(JStr(match.error)).v,
     unit |-> match.unit]

\* f.read() of a file with these lines
RECURSIVE Content(_)
Content(ls) ==
    IF ls = << >> THEN << >> ELSE Head(ls) \o << "\n" >> \o Content(Tail(ls))

\* parse_jmh_results: the list of dicts, or the exception float() raises
parse_jmh_results(content) ==
    LET matches == findall(content, 1)
        bad == {i \in 1..Len(matches) :
                   \/ ~py_float(JStr(matches[i].score)).ok
                   \/ ~py_float(JStr(matches[i].error)).ok}
    IN  IF bad # {} THEN [ok |-> FALSE, exc |-> "ValueError"]
        ELSE [ok |-> TRUE, results |-> [i \in 1..Len(matches) |-> TextRecord(matches[i])]]

\* a variant that looks for the tokens in the lower-cased name
extract_operation_type_AnyCase(benchmark) ==
    IF Contains(<<"g","e","t">>, lower(benchmark)) THEN "GET"
    ELSE IF Contains(<<"p","u","t">>, lower(benchmark)) THEN "PUT"
    ELSE IF Contains(<<"r","e","m","o","v","e">>, lower(benchmark)) THEN "REMOVE"
    ELSE IF Contains(<<"m","i","x","e","d">>, lower(benchmark)) THEN "MIXED"
    ELSE "OTHER"

extract_library_name(benchmark) ==
    IF Contains(<<"j","c","a","c","h","e","X">>, benchmark) THEN "JCacheX"
    ELSE IF Contains(<<"c","a","f","f","e","i","n","e">>, benchmark) THEN "Caffeine"
    ELSE IF Contains(<<"c","a","c","h","e","2","k">>, benchmark) THEN "Cache2k"
    ELSE IF Contains(<<"e","h","c","a","c","h","e">>, benchmark) THEN "EHCache"
    ELSE IF Contains(<<"j","c","a","c","h","e">>, benchmark) THEN "JCache"
    ELSE IF Contains(<<"c","o","n","c","u","r","r","e","n","t","M","a","p">>, benchmark) THEN "ConcurrentMap"
    ELSE "Unknown"

extract_operation_type(benchmark) ==
    IF Contains(<<"G","e","t">>, benchmark) THEN "GET"
    ELSE IF Contains(<<"P","u","t">>, benchmark) THEN "PUT"
    ELSE IF Contains(<<"R","e","m","o","v","e">>, benchmark) THEN "REMOVE"
    ELSE IF Contains(<<"M","i","x","e","d">>, benchmark) THEN "MIXED"
    ELSE "OTHER"

\* performance_data of one result
PerformanceData(result) ==
    [benchmark |-> result.benchmark,
     operation |-> extract_operation_type(result.benchmark),
     score |-> result.score,
     error |-> result.error,
     unit |-> result.unit,
     mode |-> result.mode]

\* analysis['performance_by_library'][library]: the data appended under it
RECURSIVE ByLibrary(_, _)
ByLibrary(rs, library) ==
    IF rs = << >> THEN << >>
    ELSE (IF extract_library_name(Head(rs).benchmark) = library
          THEN << PerformanceData(Head(rs)) >> ELSE << >>) \o ByLibrary(Tail(rs), library)

\* analysis['performance_by_operation'][operation]: the data appended under it
RECURSIVE ByOperation(_, _)
ByOperation(rs, operation) ==
    IF rs = << >> THEN << >>
    ELSE (IF extract_operation_type(Head(rs).benchmark) = operation
          THEN << PerformanceData(Head(rs)) >> ELSE << >>) \o ByOperation(Tail(rs), operation)

\* the keys of analysis['performance_by_library'] in the order a dict keeps
\* them: that of the first record of each library
RECURSIVE KeysInOrder(_)
KeysInOrder(rs) ==
    IF rs = << >> THEN << >>
    ELSE CHOOSE keys \in
             {IF \E i \in DOMAIN front : front[i] = extract_library_name(rs[Len(rs)].benchmark)
              THEN front
              ELSE Append(front, extract_library_name(rs[Len(rs)].benchmark)) :
                 front \in {KeysInOrder(SubSeq(rs, 1, Len(rs) - 1))}} : TRUE

\* analyze_results: 'libraries' and 'operations' are kept as sets (the order
\* of list(set) is not defined)
analyze_results(rs) ==
    LET libraries == {extract_library_name(rs[i].benchmark) : i \in 1..Len(rs)}
        operations == {extract_operation_type(rs[i].benchmark) : i \in 1..Len(rs)}
    IN  [total_benchmarks |-> Len(rs),
         libraries |-> libraries,
         operations |-> operations,
         performance_by_library |->
             [library \in libraries |-> ByLibrary(rs, library)],
         by_library_keys |-> KeysInOrder(rs),
         performance_by_operation |->
             [operation \in operations |-> ByOperation(rs, operation)],
         comparisons |-> << >>]

\* generate_csv_report: fieldnames, the header row
fieldnames == << "library", "operation", "benchmark", "score", "error", "unit", "mode" >>

\* a variant that writes the cells in the alphabetical order of their names
CsvRow_SortedKeys(library, result) ==
    << result.benchmark, result.error, library, result.mode, result.operation,
       result.score, result.unit >>

\* writer.writerow of one result of a library: the cells in the order of fieldnames
CsvRow(library, result) ==
    << library, result.operation, result.benchmark, result.score, result.error,
       result.unit, result.mode >>

\* the rows written for the libraries keys[1..n], in the order of the loops
RECURSIVE CsvRows(_, _, _)
CsvRows(an, keys, n) ==
    IF n = 0 THEN << >>
    ELSE CsvRows(an, keys, n - 1)
             \o [i \in DOMAIN an.performance_by_library[keys[n]] |->
                    CsvRow(keys[n], an.performance_by_library[keys[n]][i])]

\* generate_csv_report(analysis, output_file): the rows of the file written
generate_csv_report(an) ==
    << fieldnames >> \o CsvRows(an, an.by_library_keys, Len(an.by_library_keys))

\* main(): the file written for args.format; the text of the markdown and
\* the JSON reports is kept as the analysis it is printed from
Report(format, an) ==
    IF format = "markdown"
    THEN [file |-> "benchmark_analysis.md", content |-> [report |-> "markdown", of |-> an]]
    ELSE IF format = "json"
    THEN [file |-> "benchmark_analysis.json", content |-> [report |-> "json", of |-> an]]
    ELSE [file |-> "benchmark_analysis.csv", content |-> generate_csv_report(an)]

\* lines a *_results.txt file is made of
TextLines ==
    << <<"c","a","f","f","e","i","n","e",".","g","e","t","H","o","t"," ","a","v","g","t"," ","1","0"," ","1","5",".","2","3","0"," ","+-"," ","0",".","4","1","2"," ","n","s","/","o","p">>,
       <<"B","e","n","c","h","m","a","r","k"," ","M","o","d","e"," ","C","n","t"," ","S","c","o","r","e"," ","E","r","r","o","r"," ","U","n","i","t","s">>,
       <<"C","a","c","h","e","B","e","n","c","h",".","j","c","a","c","h","e","X","G","e","t"," "," ","a","v","g","t"," "," ","1","0"," "," ","2","5",".","5"," ","+-"," "," ","1",".","2"," "," ","n","s","/","o","p">>,
       <<"C","a","c","h","e","B","e","n","c","h",".","c","a","f","f","e","i","n","e","P","u","t","T","h","r","o","u","g","h","p","u","t"," ","t","h","r","p","t"," ","5"," ","2","1","0","0","0","0","0"," ","+-"," ","5","0","0","0","0"," ","o","p","s","/","s">>,
       <<"C","a","c","h","e","B","e","n","c","h",".","e","h","c","a","c","h","e","G","e","t"," ","a","v","g","t"," ","1","0"," ","1",".","2",".","3"," ","+-"," ","0",".","1"," ","n","s","/","o","p">>,
       <<"C","a","c","h","e","B","e","n","c","h",".","c","a","c","h","e","2","k","R","e","m","o","v","e"," ","a","v","g","t"," ","1","0"," ","1","5",".","2","3","0"," ","n","s","/","o","p">>,
       <<"-","x",":","C","a","c","h","e","B","e","n","c","h",".","c","o","n","c","u","r","r","e","n","t","M","a","p","M","i","x","e","d"," ","a","v","g","t"," ","3"," ","7","."," ","+-"," ","."," ","u","s","/","o","p",",">>,
       <<"j","c","a","c","h","e","x","G","e","t"," ","a","v","g","t"," ","1","0"," ","0"," ","+-"," ","0"," ","n","s","/","o","p">> >>

\* ------------------------------------------------- _extract_thread_count
\* the text sub stands in s at position p
At(sub, s, p) ==
    /\ p + Len(sub) - 1 <= Len(s)
    /\ \A j \in 1..Len(sub) : s[p + j - 1] = sub[j]

\* thread_patterns: (r'32t', 32) is [first "32t", then ""], (r'threads.*32', 32)
\* is [first "threads", then "32"]
thread_patterns ==
    << [first |-> <<"3","2","t">>, then |-> << >>, count |-> 32],
       [first |-> <<"1","6","t">>, then |-> << >>, count |-> 16],
       [first |-> <<"8","t">>, then |-> << >>, count |-> 8],
       [first |-> <<"4","t">>, then |-> << >>, count |-> 4],
       [first |-> <<"1","t">>, then |-> << >>, count |-> 1],
       [first |-> <<"t","h","r","e","a","d","s">>, then |-> <<"3","2">>, count |-> 32],
       [first |-> <<"t","h","r","e","a","d","s">>, then |-> <<"1","6">>, count |-> 16],
       [first |-> <<"t","h","r","e","a","d","s">>, then |-> <<"8">>, count |-> 8],
       [first |-> <<"t","h","r","e","a","d","s">>, then |-> <<"4">>, count |-> 4] >>

\* re.search(r'<first>.*<then>', s): '.' takes any character but a newline
Search(pattern, s) ==
    \E p \in 1..Len(s) :
        /\ At(pattern.first, s, p)
        /\ \E q \in (p + Len(pattern.first))..(Len(s) + 1) :
              /\ At(pattern.then, s, q)
              /\ \A r \in (p + Len(pattern.first))..(q - 1) : s[r] # "\n"

\* the positions of s where r'threads.*?(\d+)' matches
ThreadsThenDigit(s) ==
    {p \in 1..Len(s) :
        /\ At(<<"t","h","r","e","a","d","s">>, s, p)
        /\ \E q \in (p + 7)..Len(s) :
              /\ IsDigit(s[q])
              /\ \A r \in (p + 7)..(q - 1) : s[r] # "\n"}

\* match.group(1) of re.search(r'threads.*?(\d+)', s), which matches: the
\* digits from the first digit after the leftmost such 'threads' on
ThreadsGroup(s) ==
    LET p == CHOOSE p \in ThreadsThenDigit(s) : \A o \in ThreadsThenDigit(s) : p <= o
        d == CHOOSE q \in (p + 7)..Len(s) :
                 IsDigit(s[q]) /\ \A r \in (p + 7)..(q - 1) : ~IsDigit(s[r])
    IN  SubSeq(s, d, Run(s, d, DOMAIN DigitValue) - 1)

\* _extract_thread_count(benchmark_name)
_extract_thread_count(name) ==
    LET name_lower == lower(name)
        found == {i \in DOMAIN thread_patterns : Search(thread_patterns[i], name_lower)}
    IN  IF found # {}
        THEN thread_patterns[CHOOSE i \in found : \A j \in found : i <= j].count
        ELSE IF Contains(<<"t","h","r","e","a","d","s">>, name_lower) /\ ThreadsThenDigit(name_lower) # {}
        THEN DigitsValue(ThreadsGroup(name_lower))
        ELSE 1

\* vocabulary the names handed to _extract_thread_count are concatenated from
ThreadTokens ==
    { <<"g","e","t">>, <<"T","h","r","e","a","d","s">>, <<"_">>, <<"t">>, <<"0">>, <<"1">>, <<"2">>, <<"3">>, <<"4">>, <<"6">>, <<"8">>, <<"1","6">>, <<"3","2">> }

\* files a results directory of analyze-results.py is made of
TextFiles ==
    { [name |-> FileName("basic", "_results.txt"), lines |-> << TextLines[1] >>],
      [name |-> FileName("throughput", "_results.txt"),
       lines |-> << TextLines[2], TextLines[3] >>],
      [name |-> FileName("ehcache", "_results.txt"), lines |-> << TextLines[5] >>],
      [name |-> FileName("header", "_results.txt"), lines |-> << TextLines[2] >>],
      [name |-> FileName("empty", "_results.txt"), lines |-> << >>],
      [name |-> FileName("basic", "_notes.txt"), lines |-> << TextLines[1] >>] }

\* a results directory that exists, with its files in the order glob yields them
Dir(files) == [k |-> "dir", files |-> files]

\* the results directories, in the orders glob may yield their files
Directories ==
    UNION {{Dir(d) : d \in {f \in [1..n -> TextFiles] : \A i, j \in 1..n : i # j => f[i] # f[j]}} :
              n \in 0..MaxFiles}

\* results_dir.glob('*_results.txt')
RECURSIVE glob(_)
glob(dir) ==
    IF dir = << >> THEN << >>
    ELSE (IF Head(dir).name.suffix = "_results.txt" THEN << Head(dir) >> ELSE << >>)
             \o glob(Tail(dir))

\* ---------------------------------------- enhanced_analysis_generator.py
\* Strings built by f-strings are records of their parts: Gap(t, w) is
\* f"{ratio:.1f}x {w}" with t the ratio printed, in tenths.
Text(s) == [k |-> "text", s |-> s]
Gap(tenths, word) == [k |-> "gap", tenths |-> tenths, word |-> word]
Raised(exc) == [k |-> "raise", exc |-> exc]

RECURSIVE Pow2(_)
Pow2(n) == IF n <= 0 THEN 1 ELSE 2 * Pow2(n - 1)

\* the decimal is a float exactly: its denominator is a power of two
IsBinary(x) == x.e >= 0 \/ (x.m * Pow2(0 - x.e)) % Pow10(0 - x.e) = 0

\* f"{x:.1f}" for the float x computed for num / den (num >= 0, den > 0): the
\* tenths it may print.  The float lies within rounding error of the quotient,
\* which decides the digit unless the quotient is exactly halfway between two
\* tenths; then the digit is the even one when the float is the quotient itself
\* (exact: the operands are floats and the halfway value, a multiple of 1/4, is
\* their correctly rounded quotient), and either neighbour otherwise.
FormatTenths(num, den, exact) ==
    LET t == (10 * num) \div den
        r == (10 * num) % den
    IN  IF 2 * r < den THEN {t}
        ELSE IF 2 * r > den THEN {t + 1}
        ELSE IF exact /\ (2 * t + 1) % 5 = 0 THEN {IF t % 2 = 0 THEN t ELSE t + 1}
        ELSE {t, t + 1}

\* a gap that formats `ratio` in both branches
calculate_performance_gap_NoReciprocal(baseline_score, current_score) ==
    IF ~Less(Zero, baseline_score) THEN {Text("Cannot compare")}
    ELSE LET e == MinExp(baseline_score, current_score)
             b == Mant(baseline_score, e)
             c == Mant(current_score, e)
         IN  IF c > b THEN {Gap(t, "slower") : t \in FormatTenths(c, b, FALSE)}
             ELSE {Gap(t, "faster") : t \in FormatTenths(c, b, FALSE)}

\* a gap that tests `ratio >= 1`
calculate_performance_gap_SlowerOnTie(baseline_score, current_score) ==
    IF ~Less(Zero, baseline_score) THEN {Text("Cannot compare")}
    ELSE LET e == MinExp(baseline_score, current_score)
             b == Mant(baseline_score, e)
             c == Mant(current_score, e)
         IN  IF c >= b THEN {Gap(t, "slower") : t \in FormatTenths(c, b, FALSE)}
             ELSE IF c = 0 THEN {Raised("ZeroDivisionError")}
             ELSE {Gap(t, "faster") : t \in FormatTenths(b, c, FALSE)}

\* calculate_performance_gap for scores >= 0: what the call may return or raise.
\* ratio = current_score / baseline_score is above 1 exactly when current_score
\* is above baseline_score; 1/ratio is computed from the rounded ratio, so it is
\* the quotient baseline_score / current_score only up to rounding error.
calculate_performance_gap(baseline_score, current_score) ==
    IF ~Less(Zero, baseline_score) THEN {Text("Cannot compare")}
    ELSE LET e == MinExp(baseline_score, current_score)
             b == Mant(baseline_score, e)
             c == Mant(current_score, e)
         IN  IF c > b
             THEN {Gap(t, "slower") :
                      t \in FormatTenths(c, b, IsBinary(baseline_score)
                                               /\ IsBinary(current_score))}
             ELSE IF c = 0 THEN {Raised("ZeroDivisionError")}
             ELSE {Gap(t, "faster") : t \in FormatTenths(b, c, FALSE)}

\* the scores calculate_performance_gap is called with
GapScores == {Zero, Num(4, 0), Num(49, 0), Num(125, 0 - 1), Num(100, 0), Num(1523, 0 - 2)}

\* the keys of cache_mappings and the operations, in the order of the loops
cache_mappings ==
    << "caffeine", "default", "optimized", "jit", "allocation", "locality", "zerocopy",
       "readonly", "writeheavy", "jvm", "hardware", "ml" >>
summary_operations == << "get_hot", "get_cold", "put", "mixed_workload" >>

\* the (cache key, operation) pairs in the order generate_performance_summary
\* fills them
SummaryKeys ==
    [n \in 1..(Len(cache_mappings) * Len(summary_operations)) |->
        << cache_mappings[((n - 1) \div Len(summary_operations)) + 1],
           summary_operations[((n - 1) % Len(summary_operations)) + 1] >>]

\* the dict parse_jmh_results stores for one matched line
Metric(score, error, unit) == [score |-> score, error |-> error, unit |-> unit]

\* f"{score:.1f} {unit}" and f"{throughput:.1f}", by the tenths printed
Formatted(tenths, unit) == [k |-> "metric", tenths |-> tenths, unit |-> unit]
Fixed1(tenths) == [k |-> "fixed1", tenths |-> tenths]

\* a variant that returns the metric of the last source that holds the pair
get_performance_metric_LastSource(data, cache_type, operation) ==
    LET holding == {i \in 1..Len(data) : << cache_type, operation >> \in DOMAIN data[i]} IN
    IF holding = {} THEN NoneVal
    ELSE data[CHOOSE i \in holding : \A j \in holding : i >= j][<< cache_type, operation >>]

\* get_performance_metric: the metric of the first source that holds the pair
get_performance_metric(data, cache_type, operation) ==
    LET holding == {i \in 1..Len(data) : << cache_type, operation >> \in DOMAIN data[i]} IN
    IF holding = {} THEN NoneVal
    ELSE data[CHOOSE i \in holding : \A j \in holding : i <= j][<< cache_type, operation >>]

\* the entries generate_performance_summary may store for one pair
SummaryEntries(data, cache_key, operation) ==
    LET metric == get_performance_metric(data, cache_key, operation) IN
    IF metric = NoneVal
    THEN {[score |-> Zero, error |-> Zero, unit |-> "ns", formatted |-> Text("N/A")]}
    ELSE {[score |-> metric.score, error |-> metric.error, unit |-> metric.unit,
           formatted |-> Formatted(t, metric.unit)] :
             t \in FormatTenths(Mant(metric.score, MinExp(metric.score, Zero)),
                                Pow10(0 - MinExp(metric.score, Zero)),
                                IsBinary(metric.score))}

\* the map m with `value` at `key`
Extended(m, key, value) ==
    [x \in DOMAIN m \cup {key} |-> IF x = key THEN value ELSE m[x]]

\* generate_performance_summary after n of its pairs: the summaries it may build
RECURSIVE SummariesUpTo(_, _)
SummariesUpTo(data, n) ==
    IF n = 0 THEN {EmptyMap}
    ELSE {Extended(s, SummaryKeys[n], entry) :
             s \in SummariesUpTo(data, n - 1),
             entry \in SummaryEntries(data, SummaryKeys[n][1], SummaryKeys[n][2])}

generate_performance_summary(data) == SummariesUpTo(data, Len(SummaryKeys))

\* the gaps generate_gap_analysis may store for one pair
GapEntries(summ, cache_key, operation) ==
    IF Less(Zero, summ[<< "caffeine", operation >>].score)
       /\ Less(Zero, summ[<< cache_key, operation >>].score)
    THEN calculate_performance_gap(summ[<< "caffeine", operation >>].score,
                                   summ[<< cache_key, operation >>].score)
    ELSE {Text("N/A")}

\* generate_gap_analysis after n pairs of the summary
RECURSIVE GapsUpTo(_, _)
GapsUpTo(summ, n) ==
    IF n = 0 THEN {EmptyMap}
    ELSE IF SummaryKeys[n][1] = "caffeine" \/ SummaryKeys[n] \notin DOMAIN summ
         THEN GapsUpTo(summ, n - 1)
    ELSE {Extended(g, SummaryKeys[n], gap) :
             g \in GapsUpTo(summ, n - 1),
             gap \in GapEntries(summ, SummaryKeys[n][1], SummaryKeys[n][2])}

\* generate_gap_analysis(summary): the gap tables it may return
generate_gap_analysis(summ) ==
    IF \A key \in DOMAIN summ : key[1] # "caffeine"
    THEN {[error |-> Text("No Caffeine baseline data found")]}
    ELSE GapsUpTo(summ, Len(SummaryKeys))

\* PerformanceAnalysisGenerator: the values of the placeholder table
_get_metric_value(summ, cache_type, operation) ==
    IF << cache_type, operation >> \in DOMAIN summ
    THEN summ[<< cache_type, operation >>].formatted
    ELSE Text("N/A")

_get_gap_value(gap_table, cache_type, operation) ==
    IF << cache_type, operation >> \in DOMAIN gap_table
    THEN gap_table[<< cache_type, operation >>]
    ELSE Text("N/A")

\* the tenths f"{1000.0 / score:.1f}" may print
ThroughputTenths(score) ==
    FormatTenths(1000 * Pow10(0 - MinExp(score, Zero)), Mant(score, MinExp(score, Zero)),
                 IsBinary(score))

\* the scores of the summary whose throughput the float rounding leaves open
ThroughputTies(summ) ==
    {summ[key].score : key \in {x \in DOMAIN summ : /\ Less(Zero, summ[x].score)
                                                    /\ Cardinality(ThroughputTenths(summ[x].score)) = 2}}

\* _get_throughput; ties_up holds the scores whose open digit is the upper one
_get_throughput(summ, ties_up, cache_type, operation) ==
    IF << cache_type, operation >> \in DOMAIN summ
       /\ Less(Zero, summ[<< cache_type, operation >>].score)
    THEN Fixed1(CHOOSE t \in ThroughputTenths(summ[<< cache_type, operation >>].score) :
                   \A u \in ThroughputTenths(summ[<< cache_type, operation >>].score) :
                       IF summ[<< cache_type, operation >>].score \in ties_up
                       THEN u <= t ELSE t <= u)
    ELSE Text("N/A")

\* pictographs of the source are written <ok>, <no>, <warn>, <tool>
_get_status(summ, cache_type) ==
    IF \E operation \in {"get_hot", "put", "mixed_workload"} :
          /\ << cache_type, operation >> \in DOMAIN summ
          /\ Less(Zero, summ[<< cache_type, operation >>].score)
    THEN Text("<ok> Active")
    ELSE Text("<no> No Data")

ScoreOrZero(summ, cache_type, operation) ==
    IF << cache_type, operation >> \in DOMAIN summ
    THEN summ[<< cache_type, operation >>].score ELSE Zero

_check_target(summ, operation, target_ns) ==
    LET default_score == ScoreOrZero(summ, "default", operation)
        optimized_score == ScoreOrZero(summ, "optimized", operation)
    IN  IF Less(Zero, default_score) /\ ~Less(target_ns, default_score)
        THEN Text("<ok> Yes (Default)")
        ELSE IF Less(Zero, optimized_score) /\ ~Less(target_ns, optimized_score)
        THEN Text("<ok> Yes (Optimized)")
        ELSE IF Less(Zero, default_score) \/ Less(Zero, optimized_score)
        THEN Text("<warn> Close")
        ELSE Text("<no> No Data")

_get_ultra_perf_best(summ) ==
    LET caffeine_get == ScoreOrZero(summ, "caffeine", "get_hot")
        default_get == ScoreOrZero(summ, "default", "get_hot")
    IN  IF Less(Zero, caffeine_get) /\ (default_get = Zero \/ Less(caffeine_get, default_get))
        THEN Text("Caffeine")
        ELSE IF Less(Zero, default_get) THEN Text("JCacheX Default")
        ELSE Text("Caffeine")

_get_ultra_perf_rank(summ) ==
    LET caffeine_get == ScoreOrZero(summ, "caffeine", "get_hot")
        default_get == ScoreOrZero(summ, "default", "get_hot")
    IN  IF Less(Zero, default_get) /\ Less(Zero, caffeine_get)
        THEN IF ~Less(caffeine_get, default_get) THEN Text("#1") ELSE Text("#2")
        ELSE Text("#2")

_get_ultra_perf_gap(gap_table) == _get_gap_value(gap_table, "default", "get_hot")

\* the dict `placeholders`; of two entries with one name (JIT_PUT, JIT_MIXED)
\* the dict keeps the later value
placeholders(summ, gap_table, ties_up) ==
    [ CAFFEINE_GET_HOT |-> _get_metric_value(summ, "caffeine", "get_hot"),
      CAFFEINE_GET_COLD |-> _get_metric_value(summ, "caffeine", "get_cold"),
      CAFFEINE_PUT |-> _get_metric_value(summ, "caffeine", "put"),
      CAFFEINE_MIXED |-> _get_metric_value(summ, "caffeine", "mixed_workload"),
      DEFAULT_GET_HOT |-> _get_metric_value(summ, "default", "get_hot"),
      DEFAULT_GET_COLD |-> _get_metric_value(summ, "default", "get_cold"),
      DEFAULT_PUT |-> _get_metric_value(summ, "default", "put"),
      DEFAULT_MIXED |-> _get_metric_value(summ, "default", "mixed_workload"),
      OPTIMIZED_GET_HOT |-> _get_metric_value(summ, "optimized", "get_hot"),
      OPTIMIZED_GET_COLD |-> _get_metric_value(summ, "optimized", "get_cold"),
      OPTIMIZED_PUT |-> _get_metric_value(summ, "optimized", "put"),
      OPTIMIZED_MIXED |-> _get_metric_value(summ, "optimized", "mixed_workload"),
      JIT_GET_HOT |-> _get_metric_value(summ, "jit", "get_hot"),
      JIT_GET_COLD |-> _get_metric_value(summ, "jit", "get_cold"),
      JIT_PUT |-> Text("Not Available"),
      JIT_MIXED |-> Text("Not Available"),
      ALLOCATION_GET_HOT |-> _get_metric_value(summ, "allocation", "get_hot"),
      ALLOCATION_GET_COLD |-> _get_metric_value(summ, "allocation", "get_cold"),
      ALLOCATION_PUT |-> _get_metric_value(summ, "allocation", "put"),
      ALLOCATION_MIXED |-> _get_metric_value(summ, "allocation", "mixed_workload"),
      LOCALITY_GET_HOT |-> _get_metric_value(summ, "locality", "get_hot"),
      LOCALITY_GET_COLD |-> _get_metric_value(summ, "locality", "get_cold"),
      LOCALITY_PUT |-> _get_metric_value(summ, "locality", "put"),
      LOCALITY_MIXED |-> _get_metric_value(summ, "locality", "mixed_workload"),
      ZEROCOPY_GET_HOT |-> _get_metric_value(summ, "zerocopy", "get_hot"),
      ZEROCOPY_GET_COLD |-> _get_metric_value(summ, "zerocopy", "get_cold"),
      ZEROCOPY_PUT |-> _get_metric_value(summ, "zerocopy", "put"),
      ZEROCOPY_MIXED |-> _get_metric_value(summ, "zerocopy", "mixed_workload"),
      READONLY_GET_HOT |-> _get_metric_value(summ, "readonly", "get_hot"),
      READONLY_GET_COLD |-> _get_metric_value(summ, "readonly", "get_cold"),
      READONLY_PUT |-> _get_metric_value(summ, "readonly", "put"),
      READONLY_MIXED |-> _get_metric_value(summ, "readonly", "mixed_workload"),
      WRITEHEAVY_GET_HOT |-> _get_metric_value(summ, "writeheavy", "get_hot"),
      WRITEHEAVY_GET_COLD |-> _get_metric_value(summ, "writeheavy", "get_cold"),
      WRITEHEAVY_PUT |-> _get_metric_value(summ, "writeheavy", "put"),
      WRITEHEAVY_MIXED |-> _get_metric_value(summ, "writeheavy", "mixed_workload"),
      JVM_GET_HOT |-> _get_metric_value(summ, "jvm", "get_hot"),
      JVM_GET_COLD |-> _get_metric_value(summ, "jvm", "get_cold"),
      JVM_PUT |-> _get_metric_value(summ, "jvm", "put"),
      JVM_MIXED |-> _get_metric_value(summ, "jvm", "mixed_workload"),
      HARDWARE_GET_HOT |-> _get_metric_value(summ, "hardware", "get_hot"),
      HARDWARE_GET_COLD |-> _get_metric_value(summ, "hardware", "get_cold"),
      HARDWARE_PUT |-> _get_metric_value(summ, "hardware", "put"),
      HARDWARE_MIXED |-> _get_metric_value(summ, "hardware", "mixed_workload"),
      ML_GET_HOT |-> _get_metric_value(summ, "ml", "get_hot"),
      ML_GET_COLD |-> _get_metric_value(summ, "ml", "get_cold"),
      ML_PUT |-> _get_metric_value(summ, "ml", "put"),
      ML_MIXED |-> _get_metric_value(summ, "ml", "mixed_workload"),
      DEFAULT_GET_GAP |-> _get_gap_value(gap_table, "default", "get_hot"),
      DEFAULT_PUT_GAP |-> _get_gap_value(gap_table, "default", "put"),
      DEFAULT_MIXED_GAP |-> _get_gap_value(gap_table, "default", "mixed_workload"),
      OPTIMIZED_GET_GAP |-> _get_gap_value(gap_table, "optimized", "get_hot"),
      OPTIMIZED_PUT_GAP |-> _get_gap_value(gap_table, "optimized", "put"),
      OPTIMIZED_MIXED_GAP |-> _get_gap_value(gap_table, "optimized", "mixed_workload"),
      JIT_GET_GAP |-> _get_gap_value(gap_table, "jit", "get_hot"),
      JIT_PUT_GAP |-> _get_gap_value(gap_table, "jit", "put"),
      JIT_MIXED_GAP |-> _get_gap_value(gap_table, "jit", "mixed_workload"),
      ALLOCATION_GET_GAP |-> _get_gap_value(gap_table, "allocation", "get_hot"),
      ALLOCATION_PUT_GAP |-> _get_gap_value(gap_table, "allocation", "put"),
      ALLOCATION_MIXED_GAP |-> _get_gap_value(gap_table, "allocation", "mixed_workload"),
      LOCALITY_GET_GAP |-> _get_gap_value(gap_table, "locality", "get_hot"),
      LOCALITY_PUT_GAP |-> _get_gap_value(gap_table, "locality", "put"),
      LOCALITY_MIXED_GAP |-> _get_gap_value(gap_table, "locality", "mixed_workload"),
      ZEROCOPY_GET_GAP |-> _get_gap_value(gap_table, "zerocopy", "get_hot"),
      ZEROCOPY_PUT_GAP |-> _get_gap_value(gap_table, "zerocopy", "put"),
      ZEROCOPY_MIXED_GAP |-> _get_gap_value(gap_table, "zerocopy", "mixed_workload"),
      READONLY_GET_GAP |-> _get_gap_value(gap_table, "readonly", "get_hot"),
      READONLY_PUT_GAP |-> _get_gap_value(gap_table, "readonly", "put"),
      READONLY_MIXED_GAP |-> _get_gap_value(gap_table, "readonly", "mixed_workload"),
      WRITEHEAVY_GET_GAP |-> _get_gap_value(gap_table, "writeheavy", "get_hot"),
      WRITEHEAVY_PUT_GAP |-> _get_gap_value(gap_table, "writeheavy", "put"),
      WRITEHEAVY_MIXED_GAP |-> _get_gap_value(gap_table, "writeheavy", "mixed_workload"),
      JVM_GET_GAP |-> _get_gap_value(gap_table, "jvm", "get_hot"),
      JVM_PUT_GAP |-> _get_gap_value(gap_table, "jvm", "put"),
      JVM_MIXED_GAP |-> _get_gap_value(gap_table, "jvm", "mixed_workload"),
      HARDWARE_GET_GAP |-> _get_gap_value(gap_table, "hardware", "get_hot"),
      HARDWARE_PUT_GAP |-> _get_gap_value(gap_table, "hardware", "put"),
      HARDWARE_MIXED_GAP |-> _get_gap_value(gap_table, "hardware", "mixed_workload"),
      ML_GET_GAP |-> _get_gap_value(gap_table, "ml", "get_hot"),
      ML_PUT_GAP |-> _get_gap_value(gap_table, "ml", "put"),
      ML_MIXED_GAP |-> _get_gap_value(gap_table, "ml", "mixed_workload"),
      JIT_GET_THROUGHPUT |-> _get_throughput(summ, ties_up, "jit", "get_hot"),
      JIT_PUT_THROUGHPUT |-> _get_throughput(summ, ties_up, "jit", "put"),
      JIT_MIXED_THROUGHPUT |-> _get_throughput(summ, ties_up, "jit", "mixed_workload"),
      ALLOCATION_GET_THROUGHPUT |-> _get_throughput(summ, ties_up, "allocation", "get_hot"),
      ALLOCATION_PUT_THROUGHPUT |-> _get_throughput(summ, ties_up, "allocation", "put"),
      ALLOCATION_MIXED_THROUGHPUT |-> _get_throughput(summ, ties_up, "allocation", "mixed_workload"),
      LOCALITY_GET_THROUGHPUT |-> _get_throughput(summ, ties_up, "locality", "get_hot"),
      LOCALITY_PUT_THROUGHPUT |-> _get_throughput(summ, ties_up, "locality", "put"),
      LOCALITY_MIXED_THROUGHPUT |-> _get_throughput(summ, ties_up, "locality", "mixed_workload"),
      DEFAULT_PERFORMANCE_TIER |-> _get_status(summ, "default"),
      OPTIMIZED_PERFORMANCE_TIER |-> _get_status(summ, "optimized"),
      JIT_PERFORMANCE_TIER |-> _get_status(summ, "jit"),
      ALLOCATION_PERFORMANCE_TIER |-> _get_status(summ, "allocation"),
      SPECIALIZED_PERFORMANCE_TIER |-> Text("High Performance"),
      DEFAULT_STRENGTH |-> Text("Balanced performance across operations"),
      DEFAULT_USE_CASE |-> Text("General-purpose caching with predictable performance"),
      DEFAULT_WEAKNESS |-> Text("Not optimized for specific workload patterns"),
      OPTIMIZED_STRENGTH |-> Text("Advanced eviction policies and frequency tracking"),
      OPTIMIZED_USE_CASE |-> Text("Complex workloads requiring intelligent eviction"),
      OPTIMIZED_WEAKNESS |-> Text("Higher overhead from sophisticated algorithms"),
      JIT_STRENGTH |-> Text("Optimized for JVM hot paths and method inlining"),
      JIT_USE_CASE |-> Text("High-frequency access patterns with JIT optimization"),
      JIT_WEAKNESS |-> Text("Requires JVM warmup for optimal performance"),
      ALLOCATION_STRENGTH |-> Text("Minimal object allocation and memory pressure"),
      ALLOCATION_USE_CASE |-> Text("Memory-constrained environments and GC-sensitive applications"),
      ALLOCATION_WEAKNESS |-> Text("Complexity of object pooling management"),
      LOCALITY_STRENGTH |-> Text("Excellent cache line utilization and memory locality"),
      LOCALITY_USE_CASE |-> Text("CPU-intensive applications requiring cache efficiency"),
      LOCALITY_WEAKNESS |-> Text("Limited benefit for non-CPU bound workloads"),
      BEST_JCACHEX_GET_IMPL |-> _get_ultra_perf_best(summ),
      BEST_JCACHEX_GET |-> _get_metric_value(summ, "zerocopy", "get_cold"),
      BEST_JCACHEX_PUT_IMPL |-> Text("JITOptimizedCache"),
      BEST_JCACHEX_PUT |-> _get_metric_value(summ, "jit", "put"),
      BEST_JCACHEX_MIXED_IMPL |-> Text("JITOptimizedCache"),
      BEST_JCACHEX_MIXED |-> _get_metric_value(summ, "jit", "mixed_workload"),
      TOP_PERFORMER_1 |-> Text("ZeroCopyOptimizedCache"),
      TOP_PERFORMER_1_DESCRIPTION |-> Text("Best GET performance with zero-copy operations"),
      TOP_PERFORMER_2 |-> Text("ReadOnlyOptimizedCache"),
      TOP_PERFORMER_2_DESCRIPTION |-> Text("Excellent read-heavy workload performance"),
      TOP_PERFORMER_3 |-> Text("LocalityOptimizedCache"),
      TOP_PERFORMER_3_DESCRIPTION |-> Text("Superior cache locality and memory efficiency"),
      READ_HEAVY_PRIMARY |-> Text("ReadOnlyOptimizedCache"),
      READ_HEAVY_SECONDARY |-> Text("ZeroCopyOptimizedCache"),
      READ_HEAVY_GAP |-> _get_gap_value(gap_table, "readonly", "get_hot"),
      WRITE_HEAVY_PRIMARY |-> Text("JITOptimizedCache"),
      WRITE_HEAVY_SECONDARY |-> Text("HardwareOptimizedCache"),
      WRITE_HEAVY_GAP |-> _get_gap_value(gap_table, "jit", "put"),
      MIXED_WORKLOAD_PRIMARY |-> Text("JITOptimizedCache"),
      MIXED_WORKLOAD_SECONDARY |-> Text("HardwareOptimizedCache"),
      MIXED_WORKLOAD_GAP |-> _get_gap_value(gap_table, "jit", "mixed_workload"),
      MEMORY_SENSITIVE_PRIMARY |-> Text("AllocationOptimizedCache"),
      MEMORY_SENSITIVE_SECONDARY |-> Text("LocalityOptimizedCache"),
      MEMORY_SENSITIVE_GAP |-> _get_gap_value(gap_table, "allocation", "get_hot"),
      HFT_PRIMARY |-> Text("ZeroCopyOptimizedCache"),
      HFT_SECONDARY |-> Text("ReadOnlyOptimizedCache"),
      HFT_GAP |-> _get_gap_value(gap_table, "zerocopy", "get_cold"),
      GENERAL_LEADER |-> Text("JITOptimizedCache"),
      GENERAL_JCACHEX |-> _get_metric_value(summ, "jit", "get_hot"),
      GENERAL_GAP |-> _get_gap_value(gap_table, "jit", "get_hot"),
      GENERAL_STATUS |-> _check_target(summ, "get_hot", Num(20, 0)),
      ULTRA_PERF_LEADER |-> Text("ZeroCopyOptimizedCache"),
      ULTRA_PERF_JCACHEX |-> _get_metric_value(summ, "zerocopy", "get_cold"),
      ULTRA_PERF_STATUS |-> _check_target(summ, "get_cold", Num(10, 0)),
      ENTERPRISE_LEADER |-> Text("JITOptimizedCache"),
      ENTERPRISE_JCACHEX |-> _get_metric_value(summ, "jit", "mixed_workload"),
      ENTERPRISE_GAP |-> _get_gap_value(gap_table, "jit", "mixed_workload"),
      ENTERPRISE_STATUS |-> _check_target(summ, "mixed_workload", Num(35, 0)),
      MEMORY_LEADER |-> Text("AllocationOptimizedCache"),
      MEMORY_JCACHEX |-> _get_metric_value(summ, "allocation", "get_hot"),
      MEMORY_GAP |-> _get_gap_value(gap_table, "allocation", "get_hot"),
      MEMORY_STATUS |-> _check_target(summ, "get_hot", Num(25, 0)),
      CAFFEINE_GET_THROUGHPUT |-> _get_throughput(summ, ties_up, "caffeine", "get_hot"),
      CAFFEINE_PUT_THROUGHPUT |-> _get_throughput(summ, ties_up, "caffeine", "put"),
      CAFFEINE_MIXED_THROUGHPUT |-> _get_throughput(summ, ties_up, "caffeine", "mixed_workload"),
      DEFAULT_GET_THROUGHPUT |-> _get_throughput(summ, ties_up, "default", "get_hot"),
      DEFAULT_PUT_THROUGHPUT |-> _get_throughput(summ, ties_up, "default", "put"),
      DEFAULT_MIXED_THROUGHPUT |-> _get_throughput(summ, ties_up, "default", "mixed_workload"),
      OPTIMIZED_GET_THROUGHPUT |-> _get_throughput(summ, ties_up, "optimized", "get_hot"),
      OPTIMIZED_PUT_THROUGHPUT |-> _get_throughput(summ, ties_up, "optimized", "put"),
      OPTIMIZED_MIXED_THROUGHPUT |-> _get_throughput(summ, ties_up, "optimized", "mixed_workload"),
      DEFAULT_STATUS |-> _get_status(summ, "default"),
      OPTIMIZED_STATUS |-> _get_status(summ, "optimized"),
      GET_TARGET_MET |-> _check_target(summ, "get_hot", Num(20, 0)),
      PUT_TARGET_MET |-> _check_target(summ, "put", Num(60, 0)),
      MIXED_TARGET_MET |-> _check_target(summ, "mixed_workload", Num(40, 0)),
      ULTRA_PERF_BEST |-> _get_ultra_perf_best(summ),
      ULTRA_PERF_RANK |-> _get_ultra_perf_rank(summ),
      ULTRA_PERF_GAP |-> _get_ultra_perf_gap(gap_table),
      BALANCED_BEST |-> Text("JCacheX Default"),
      BALANCED_RANK |-> Text("#1"),
      BALANCED_GAP |-> Text("Feature-performance balance"),
      FEATURE_BEST |-> Text("JCacheX"),
      FEATURE_RANK |-> Text("#1"),
      FEATURE_GAP |-> Text("Most comprehensive features"),
      JIT_GET |-> Text("Not Available"),
      JIT_STATUS |-> Text("<tool> Compilation Issues"),
      ALLOC_GET |-> Text("Not Available"),
      ALLOC_PUT |-> Text("Not Available"),
      ALLOC_MIXED |-> Text("Not Available"),
      ALLOC_STATUS |-> Text("<tool> Compilation Issues"),
      ZERO_GET |-> Text("Not Available"),
      ZERO_PUT |-> Text("Not Available"),
      ZERO_MIXED |-> Text("Not Available"),
      ZERO_STATUS |-> Text("<tool> Compilation Issues"),
      RO_GET |-> Text("Not Available"),
      RO_PUT |-> Text("Not Available"),
      RO_MIXED |-> Text("Not Available"),
      RO_STATUS |-> Text("<tool> Compilation Issues"),
      WH_GET |-> Text("Not Available"),
      WH_PUT |-> Text("Not Available"),
      WH_MIXED |-> Text("Not Available"),
      WH_STATUS |-> Text("<tool> Compilation Issues") ]

\* A template is a sequence of pieces: Token(name) is the text '{{name}}',
\* TableHead the text '| Operation |', Bar the text '|', NewLine the line break,
\* Lit(s) a text without '|', '{' and line break; Value(v) is str(v) put in by
\* replace(), CleanTable(cells) the regenerated comparison table.
Token(name) == [k |-> "token", name |-> name]
Lit(s) == [k |-> "lit", s |-> s]
TableHead == [k |-> "head"]
Bar == [k |-> "bar"]
NewLine == [k |-> "nl"]
Value(v) == [k |-> "value", v |-> v]
CleanTable(cells) == [k |-> "table", cells |-> cells]

\* _generate_clean_comparison_table: the twelve cells that are filled in
_generate_clean_comparison_table(summ) ==
    CleanTable([n \in 1..12 |->
        _get_metric_value(summ, << "default", "optimized", "caffeine" >>[((n - 1) % 3) + 1],
                          summary_operations[((n - 1) \div 3) + 1])])

\* content.replace(f"{{{{{placeholder}}}}}", str(value)) for every placeholder
Replaced(template, summ, gap_table, ties_up) ==
    CHOOSE replaced \in
        { [i \in DOMAIN template |->
              IF template[i].k = "token" /\ template[i].name \in DOMAIN table
              THEN Value(table[template[i].name])
              ELSE template[i]] :
            table \in {placeholders(summ, gap_table, ties_up)} } : TRUE

\* index of the first line break at or after i, 0 when there is none
NextNewline(pieces, i) ==
    IF \E j \in i..Len(pieces) : pieces[j].k = "nl"
    THEN CHOOSE j \in i..Len(pieces) :
            pieces[j].k = "nl" /\ \A h \in i..(j - 1) : pieces[h].k # "nl"
    ELSE 0

\* (\|.*?\n)* from position pos: the position after the last row it takes
RECURSIVE RowsEnd(_, _)
RowsEnd(pieces, pos) ==
    IF pos <= Len(pieces) /\ pieces[pos].k \in {"bar", "head"} /\ NextNewline(pieces, pos) # 0
    THEN RowsEnd(pieces, NextNewline(pieces, pos) + 1)
    ELSE pos

\* table_pattern matched from the '| Operation |' at i: the position after the
\* match, 0 when it does not match there
TableEnd(pieces, i) ==
    IF NextNewline(pieces, i + 1) = 0 THEN 0
    ELSE IF RowsEnd(pieces, NextNewline(pieces, i + 1) + 1) = NextNewline(pieces, i + 1) + 1
    THEN 0
    ELSE RowsEnd(pieces, NextNewline(pieces, i + 1) + 1)

\* re.sub(table_pattern, clean_table, content, count=1)
TableRegenerated(pieces, summ) ==
    LET starts == {i \in DOMAIN pieces : pieces[i].k = "head" /\ TableEnd(pieces, i) # 0} IN
    IF starts = {} THEN pieces
    ELSE SubSeq(pieces, 1, (CHOOSE i \in starts : \A j \in starts : i <= j) - 1)
         \o << _generate_clean_comparison_table(summ) >>
         \o SubSeq(pieces, TableEnd(pieces, CHOOSE i \in starts : \A j \in starts : i <= j),
                   Len(pieces))

\* populate_placeholders; ties_up as for _get_throughput
populate_placeholders(template, summ, gap_table, ties_up) ==
    TableRegenerated(Replaced(template, summ, gap_table, ties_up), summ)

\* the format string `table` of _generate_clean_comparison_table filled with
\* these cells: six lines that begin with '|', the last one without a line break
CleanTableText(cells) ==
    << TableHead,
       Lit(" JCacheX Default | JCacheX Optimized | Caffeine | Cache2k | EHCache | ConcurrentMap |"),
       NewLine,
       Bar, Lit("-----------|----------------|------------------|----------|---------|---------|---------------|"),
       NewLine,
       Bar, Lit(" **GET (Hot)** "), Value(cells[1]), Value(cells[2]), Value(cells[3]),
       Lit(" 76.0 ns | 201.0 ns | 4.0 ns |"), NewLine,
       Bar, Lit(" **GET (Cold)** "), Value(cells[4]), Value(cells[5]), Value(cells[6]),
       Lit(" 82.0 ns | 215.0 ns | 4.0 ns |"), NewLine,
       Bar, Lit(" **PUT** "), Value(cells[7]), Value(cells[8]), Value(cells[9]),
       Lit(" 123.0 ns | 147.0 ns | 10.0 ns |"), NewLine,
       Bar, Lit(" **Mixed Workload** "), Value(cells[10]), Value(cells[11]), Value(cells[12]),
       Lit(" 273.0 ns | 515.0 ns | 208.0 ns |") >>

\* the returned content as the text it is: the clean table written out
RECURSIVE Written(_)
Written(pieces) ==
    IF pieces = << >> THEN << >>
    ELSE (IF Head(pieces).k = "table" THEN CleanTableText(Head(pieces).cells)
          ELSE << Head(pieces) >>) \o Written(Tail(pieces))

\* a source with a metric for each of three pairs that is given (not None)
Source(caffeine_get, default_get, jit_put) ==
    LET given == [x \in {<< "caffeine", "get_hot" >>, << "default", "get_hot" >>,
                         << "jit", "put" >>} |->
                     IF x = << "caffeine", "get_hot" >> THEN caffeine_get
                     ELSE IF x = << "default", "get_hot" >> THEN default_get
                     ELSE jit_put]
    IN  [key \in {x \in DOMAIN given : given[x] # NoneVal} |->
            Metric(given[key], Num(1, 0 - 1), "ns")]

\* what process_all_results may have stored: one source
DataSets ==
    { << Source(caffeine_get, default_get, jit_put) >> :
        caffeine_get \in {NoneVal, Zero, Num(4, 0), Num(49, 0)},
        default_get \in {NoneVal, Zero, Num(4, 0), Num(49, 0)},
        jit_put \in {NoneVal, Num(64, 0 - 1)} }

\* one match of the pattern of JMHResultParser.parse_jmh_results: the name
\* after 'SimplifiedPerformanceBenchmark.' as benchmark_name.split('_') gives
\* it, and the score and error texts
SourceMatch(method_parts, score, error) ==
    [method_parts |-> method_parts, score |-> score, error |-> error, unit |-> "ns"]

\* '_'.join(method_parts[1:]) for the operations of the enumerated names
join ==
    << "get", "hot" >> :> "get_hot" @@ << "get", "cold" >> :> "get_cold" @@ << "put" >> :> "put"

\* JMHResultParser.parse_jmh_results: results after the loop over these
\* matches, as (cache type, operation) -> metric
RECURSIVE JMHResultParser_parse_jmh_results(_)
JMHResultParser_parse_jmh_results(matches) ==
    IF matches = << >> THEN EmptyMap
    ELSE CHOOSE stored \in
             {IF Len(match.method_parts) >= 2
              THEN Extended(before, << match.method_parts[1], join[Tail(match.method_parts)] >>,
                            Metric(py_float(JStr(match.score)).v,
                                   py_float(JStr(match.error)).v, match.unit))
              ELSE before :
                 before \in {JMHResultParser_parse_jmh_results(SubSeq(matches, 1, Len(matches) - 1))},
                 match \in {matches[Len(matches)]}} : TRUE

\* the matches of the result files process_all_results parses
SourceFiles ==
    { << >>,
      << SourceMatch(<< "caffeine", "get", "hot" >>, <<"4",".","0">>, <<"0",".","1">>) >>,
      << SourceMatch(<< "caffeine", "get", "hot" >>, <<"4","9",".","0">>, <<"0",".","1">>) >>,
      << SourceMatch(<< "caffeine", "get", "hot" >>, <<"4",".","0">>, <<"0",".","1">>),
         SourceMatch(<< "caffeine", "get", "hot" >>, <<"1","5",".","2","3">>, <<"0",".","1">>) >>,
      << SourceMatch(<< "default", "get", "hot" >>, <<"4",".","0">>, <<"0",".","1">>),
         SourceMatch(<< "warmup" >>, <<"4","9",".","0">>, <<"0",".","1">>) >>,
      << SourceMatch(<< "caffeine", "get", "hot" >>, <<"4","9",".","0">>, <<"0",".","1">>),
         SourceMatch(<< "default", "put" >>, <<"4",".","0">>, <<"0",".","1">>),
         SourceMatch(<< "caffeine", "get", "hot" >>, <<"4",".","0">>, <<"0",".","1">>) >> }

\* the lines a template is written from
TemplateLines ==
    << << TableHead, Lit(" X "), Bar >>,
       << Bar, Lit(" "), Token("UNKNOWN_TOKEN"), Lit(" "), Bar, Lit(" "),
          Token("CAFFEINE_GET_HOT"), Lit(" "), Bar >>,
       << Lit("gap "), Token("DEFAULT_GET_GAP"), Lit(" "), Token("UNKNOWN_TOKEN"),
          Lit(" "), Token("JIT_PUT"), Lit(" "), Token("ZERO_GET") >>,
       << Lit("x "), TableHead, Lit(" "), Token("JIT_PUT_THROUGHPUT") >>,
       << Token("ULTRA_PERF_BEST"), Lit(" "), Token("ULTRA_PERF_RANK"), Lit(" "),
          Token("DEFAULT_STATUS") >> >>

\* --------------------------------------------------------- state machines
ClassifyIdle ==
    /\ benchmark_name = << >>
    /\ n_tokens = 0
    /\ entry_threads = Missing
    /\ benchmark_result = << >>
    /\ thread_count = << >>

ReportIdle ==
    /\ overall_scores = EmptyMap
    /\ ranking = << >>

\* analyze-results.py is not run
TextIdle ==
    /\ lines = << >>
    /\ text_pc = "idle"
    /\ all_results = << >>
    /\ analysis = NoneVal
    /\ results_dir = NoneVal
    /\ result_files = << >>
    /\ reports = << >>

\* enhanced_analysis_generator.py is not run
GeneratorIdle ==
    /\ gen_pc = "idle"
    /\ performance_data = << >>
    /\ summary = NoneVal
    /\ gaps = NoneVal
    /\ gap_calls = << >>
    /\ template_content = << >>
    /\ populated_content = NoneVal
    /\ source_files = << >>
    /\ metric_call = NoneVal

\* EnhancedBenchmarkParser.__init__, before parse_all_results lists the directory
ParserInit(listings) ==
    /\ pc = "listing"
    /\ listing \in listings
    /\ current = << >>
    /\ read_result = NoneVal
    /\ results = EmptyMap
    /\ first_entry = EmptyMap
    /\ last_entry = EmptyMap
    /\ stderr = {}

\* parse_all_results: a file that is no result file is passed over
SkipFile ==
    /\ pc = "listing" /\ current = << >> /\ listing # << >>
    /\ ~IsResultFile(Head(listing))
    /\ listing' = Tail(listing)
    /\ UNCHANGED << classifyVars, pc, current, results, first_entry, last_entry, read_result, stderr, reportVars, textVars, generatorVars >>

\* _parse_suite_results: open() and json.load() succeed
OpenFile ==
    /\ pc = "listing" /\ current = << >> /\ listing # << >>
    /\ IsResultFile(Head(listing))
    /\ current' = << Head(listing) >>
    /\ listing' = Tail(listing)
    /\ UNCHANGED << classifyVars, pc, results, first_entry, last_entry, read_result, stderr, reportVars, textVars, generatorVars >>

\* an open() failure that leaves parse_all_results: no later file is read
OpenFails_Abort ==
    /\ pc = "listing" /\ current = << >> /\ listing # << >>
    /\ IsResultFile(Head(listing))
    /\ stderr' = stderr \cup {Head(listing)}
    /\ listing' = << >>
    /\ UNCHANGED << classifyVars, pc, current, results, first_entry, last_entry, read_result, reportVars, textVars, generatorVars >>

\* _parse_suite_results: open() or json.load() raises, the except branch prints
OpenFails ==
    /\ pc = "listing" /\ current = << >> /\ listing # << >>
    /\ IsResultFile(Head(listing))
    /\ stderr' = stderr \cup {Head(listing)}
    /\ listing' = Tail(listing)
    /\ UNCHANGED << classifyVars, pc, current, results, first_entry, last_entry, read_result, reportVars, textVars, generatorVars >>

\* the history h with `result` noted at `key`: always, or only the first time
Recorded(h, key, result, always) ==
    [x \in DOMAIN h \cup {key} |->
        IF x = key /\ (always \/ key \notin DOMAIN h) THEN result ELSE h[x]]

\* _parse_suite_results: one pass of `for result in data`; an exception leaves
\* the loop and the file
ParseResult ==
    /\ pc = "listing" /\ current # << >>
    /\ \E entry \in SampleEntries(SuiteOf(current[1])) :
          /\ read_result' = entry
          /\ IF Raises(entry)
             THEN /\ stderr' = stderr \cup {current[1]}
                  /\ current' = << >>
                  /\ UNCHANGED << results, first_entry, last_entry >>
             ELSE LET br == ResultOf(SuiteOf(current[1]), entry) IN
                  /\ Cardinality(DOMAIN results \cup {KeyOf(br)}) <= MaxRecords
                  /\ results' = StoreResult(results, br)
                  /\ first_entry' = Recorded(first_entry, KeyOf(br), entry, FALSE)
                  /\ last_entry' = Recorded(last_entry, KeyOf(br), entry, TRUE)
                  /\ UNCHANGED << current, stderr >>
    /\ UNCHANGED << classifyVars, pc, listing, reportVars, textVars, generatorVars >>

\* _parse_suite_results: `data` is exhausted
EndOfData ==
    /\ pc = "listing" /\ current # << >>
    /\ current' = << >>
    /\ UNCHANGED << classifyVars, pc, listing, results, first_entry, last_entry, read_result, stderr, reportVars, textVars, generatorVars >>

\* parse_all_results returns self.results
ReturnResults ==
    /\ pc = "listing" /\ current = << >> /\ listing = << >>
    /\ pc' = "parsed"
    /\ UNCHANGED << classifyVars, parseVars, reportVars, textVars, generatorVars >>

\* _generate_cross_suite_comparison
CrossSuiteComparison ==
    /\ pc = "parsed"
    /\ overall_scores' = OverallScores(results)
    /\ ranking' = RankingRows(OverallScores(results))
    /\ pc' = "reported"
    /\ UNCHANGED << classifyVars, parseVars, textVars, generatorVars >>

Init ==
    ClassifyIdle /\ ParserInit(Listings(Directory)) /\ ReportIdle /\ TextIdle /\ GeneratorIdle

Next ==
    \/ SkipFile
    \/ OpenFile
    \/ OpenFails
    \/ ParseResult
    \/ EndOfData
    \/ ReturnResults
    \/ CrossSuiteComparison

Spec == Init /\ [][Next]_vars

\* the (suite, benchmark name) pairs a scoring run may hold an entry for
ScoreSlots ==
    << << "basic_operations", <<"b",".","j","c","a","c","h","e","x","D","e","f","a","u","l","t","G","e","t">> >>,
       << "basic_operations", <<"b",".","c","a","f","f","e","i","n","e","G","e","t">> >>,
       << "basic_operations", <<"b",".","c","a","f","f","e","i","n","e","P","u","t">> >>,
       << "throughput", <<"b",".","j","c","a","c","h","e","x","D","e","f","a","u","l","t","G","e","t","T","h","r","o","u","g","h","p","u","t">> >>,
       << "throughput", <<"b",".","c","a","f","f","e","i","n","e","G","e","t","T","h","r","o","u","g","h","p","u","t">> >>,
       << "concurrent_operations", <<"b",".","j","c","a","c","h","e","x","D","e","f","a","u","l","t","R","e","a","d","H","e","a","v","y">> >>,
       << "concurrent_operations", <<"b",".","c","a","f","f","e","i","n","e","R","e","a","d","H","e","a","v","y">> >>,
       << "hardcore_stress", <<"b",".","j","c","a","c","h","e","x","D","e","f","a","u","l","t","E","x","t","r","e","m","e","C","o","n","t","e","n","t","i","o","n">> >>,
       << "hardcore_stress", <<"b",".","c","a","f","f","e","i","n","e","E","x","t","r","e","m","e","C","o","n","t","e","n","t","i","o","n">> >>,
       << "endurance_tests", <<"b",".","j","c","a","c","h","e","x","D","e","f","a","u","l","t","S","u","s","t","a","i","n","e","d","L","o","a","d">> >>,
       << "endurance_tests", <<"b",".","c","a","f","f","e","i","n","e","S","u","s","t","a","i","n","e","d","L","o","a","d">> >> >>

\* the parser's state after result files that hold, for each of the first n
\* slots, no entry or one entry of ScoreEntries: MaxScoreRecords records at most
RECURSIVE ParsedRuns(_)
ParsedRuns(n) ==
    IF n = 0 THEN {[results |-> EmptyMap, entries |-> EmptyMap]}
    ELSE LET suite_type == ScoreSlots[n][1]
             slot == {e \in ScoreEntries(suite_type) : e.benchmark.s = ScoreSlots[n][2]}
             before == ParsedRuns(n - 1)
         IN  before \cup
             { [results |-> StoreResult(run.results, ResultOf(suite_type, e)),
                entries |-> Recorded(run.entries, KeyOf(ResultOf(suite_type, e)), e, TRUE)] :
                  run \in {r \in before : Cardinality(DOMAIN r.results) < MaxScoreRecords},
                  e \in slot }

ScoreRuns == ParsedRuns(Len(ScoreSlots))

\* the scoring runs: parse_all_results has returned one of the aggregations of
\* ParsedRuns
InitScore ==
    /\ ClassifyIdle
    /\ pc = "parsed" /\ listing = << >> /\ current = << >> /\ read_result = NoneVal
    /\ stderr = {}
    /\ \E run \in ScoreRuns :
          /\ results = run.results
          /\ first_entry = run.entries
          /\ last_entry = run.entries
    /\ ReportIdle
    /\ TextIdle
    /\ GeneratorIdle

NextScore == CrossSuiteComparison

SpecScore == InitScore /\ [][NextScore]_vars

\* the classifier runs: a benchmark name is put together, then classified
InitClassify ==
    /\ ClassifyIdle
    /\ pc = "idle" /\ listing = << >> /\ current = << >> /\ read_result = NoneVal
    /\ results = EmptyMap /\ first_entry = EmptyMap /\ last_entry = EmptyMap
    /\ stderr = {}
    /\ ReportIdle
    /\ TextIdle
    /\ GeneratorIdle

\* the harness names a benchmark: one more piece of the name
AppendToken ==
    /\ benchmark_result = << >>
    /\ n_tokens < MaxTokens
    /\ \E t \in NameTokens : benchmark_name' = benchmark_name \o t
    /\ n_tokens' = n_tokens + 1
    /\ UNCHANGED << entry_threads, benchmark_result, thread_count, pc, parseVars, reportVars, textVars,
                    generatorVars >>

\* the loop body builds the BenchmarkResult of an entry with that name
Construct ==
    /\ benchmark_result = << >>
    /\ \E threads \in {Missing, JInt(4), JInt(0)} :
          /\ entry_threads' = threads
          /\ benchmark_result' =
                << ResultOf("basic_operations",
                            Entry(JStr(benchmark_name), JNum(1523, 0 - 2), JNum(412, 0 - 3),
                                  JUnit("ns/op"), threads)) >>
    /\ UNCHANGED << benchmark_name, n_tokens, thread_count, pc, parseVars, reportVars, textVars,
                    generatorVars >>

\* the constructed object is filed in self.results
StoreConstructed ==
    /\ benchmark_result # << >>
    /\ results = EmptyMap
    /\ results' = StoreResult(results, benchmark_result[1])
    /\ UNCHANGED << classifyVars, pc, listing, current, first_entry, last_entry, read_result, stderr,
                    reportVars, textVars, generatorVars >>

NextClassify == AppendToken \/ Construct \/ StoreConstructed

\* a caller names a benchmark: one more piece of the name
AppendThreadToken ==
    /\ thread_count = << >>
    /\ n_tokens < MaxThreadTokens
    /\ \E t \in ThreadTokens : benchmark_name' = benchmark_name \o t
    /\ n_tokens' = n_tokens + 1
    /\ UNCHANGED << entry_threads, benchmark_result, thread_count, pc, parseVars, reportVars, textVars,
                    generatorVars >>

\* a call of _extract_thread_count with that name
ExtractThreadCount ==
    /\ thread_count = << >>
    /\ thread_count' = << _extract_thread_count(benchmark_name) >>
    /\ UNCHANGED << benchmark_name, n_tokens, entry_threads, benchmark_result, pc, parseVars, reportVars,
                    textVars, generatorVars >>

NextThreads == AppendThreadToken \/ ExtractThreadCount

SpecThreads == InitClassify /\ [][NextThreads]_vars

SpecClassify == InitClassify /\ [][NextClassify]_vars

\* analyze-results.py runs on one result file
InitText ==
    /\ ClassifyIdle
    /\ pc = "idle" /\ listing = << >> /\ current = << >> /\ read_result = NoneVal
    /\ results = EmptyMap /\ first_entry = EmptyMap /\ last_entry = EmptyMap
    /\ stderr = {}
    /\ ReportIdle
    /\ lines = << >>
    /\ text_pc = "writing"
    /\ all_results = << >>
    /\ analysis = NoneVal
    /\ results_dir = Dir(<< >>)
    /\ result_files = << >>
    /\ reports = << >>
    /\ GeneratorIdle

\* the benchmark run writes one more line to the result file
WriteLine ==
    /\ text_pc = "writing"
    /\ Len(lines) < MaxLines
    /\ \E i \in 1..Len(TextLines) : lines' = Append(lines, TextLines[i])
    /\ UNCHANGED << classifyVars, pc, parseVars, reportVars, generatorVars, text_pc, all_results, analysis,
                    results_dir, result_files, reports >>

\* main(): the loop over result_files, parse_jmh_results of the file
ParseFile ==
    /\ text_pc = "writing"
    /\ LET parsed == parse_jmh_results(Content(lines)) IN
       IF parsed.ok
       THEN /\ all_results' = all_results \o parsed.results
            /\ text_pc' = "parsed"
       ELSE /\ text_pc' = "raised"
            /\ UNCHANGED all_results
    /\ UNCHANGED << classifyVars, pc, parseVars, reportVars, generatorVars, lines, analysis,
                    results_dir, result_files, reports >>

\* main(): after the loop, `if not all_results: ... sys.exit(1)`
NoResults ==
    /\ text_pc = "parsed"
    /\ result_files = << >>
    /\ all_results = << >>
    /\ text_pc' = "exit"
    /\ UNCHANGED << classifyVars, pc, parseVars, reportVars, generatorVars, lines, all_results, analysis,
                    results_dir, result_files, reports >>

\* main(): analysis = analyze_results(all_results)
AnalyzeResults ==
    /\ text_pc = "parsed"
    /\ result_files = << >>
    /\ all_results # << >>
    /\ analysis' = analyze_results(all_results)
    /\ text_pc' = "analyzed"
    /\ UNCHANGED << classifyVars, pc, parseVars, reportVars, generatorVars, lines, all_results,
                    results_dir, result_files, reports >>

\* main(): output_dir.mkdir(exist_ok=True) and the report of args.format
WriteReport ==
    /\ text_pc = "analyzed"
    /\ \E format \in {"markdown", "json", "csv"} :
          reports' = Append(reports, Report(format, analysis))
    /\ text_pc' = "done"
    /\ UNCHANGED << classifyVars, pc, parseVars, reportVars, generatorVars, lines, all_results, analysis,
                    results_dir, result_files >>

NextText == WriteLine \/ ParseFile \/ NoResults \/ AnalyzeResults \/ WriteReport

SpecText == InitText /\ [][NextText]_vars

\* JMHResultParser.__init__: process_all_results is about to run
InitSources ==
    /\ ClassifyIdle
    /\ pc = "idle" /\ listing = << >> /\ current = << >> /\ read_result = NoneVal
    /\ results = EmptyMap /\ first_entry = EmptyMap /\ last_entry = EmptyMap
    /\ stderr = {}
    /\ ReportIdle
    /\ TextIdle
    /\ gen_pc = "processing"
    /\ performance_data = << >>
    /\ summary = NoneVal
    /\ gaps = NoneVal
    /\ gap_calls = << >>
    /\ template_content = << >>
    /\ populated_content = NoneVal
    /\ source_files = << >>
    /\ metric_call = NoneVal

\* process_all_results: the main result file exists and is the only source
ProcessMainFile ==
    /\ gen_pc = "processing"
    /\ \E matches \in SourceFiles :
          /\ source_files' = << matches >>
          /\ performance_data' = << JMHResultParser_parse_jmh_results(matches) >>
    /\ gen_pc' = "parsed"
    /\ UNCHANGED << classifyVars, pc, parseVars, reportVars, textVars, summary, gaps, gap_calls,
                    template_content, populated_content, metric_call >>

\* process_all_results without the main file: one pass of the loop over the
\* '*_results.txt' files
ProcessResultFile ==
    /\ gen_pc \in {"processing", "fallback"}
    /\ Len(performance_data) < MaxSources
    /\ \E matches \in SourceFiles :
          /\ source_files' = Append(source_files, matches)
          /\ performance_data' =
                Append(performance_data, JMHResultParser_parse_jmh_results(matches))
    /\ gen_pc' = "fallback"
    /\ UNCHANGED << classifyVars, pc, parseVars, reportVars, textVars, summary, gaps, gap_calls,
                    template_content, populated_content, metric_call >>

\* process_all_results without the main file: the loop is over
EndOfResultFiles ==
    /\ gen_pc \in {"processing", "fallback"}
    /\ gen_pc' = "parsed"
    /\ UNCHANGED << classifyVars, pc, parseVars, reportVars, textVars, performance_data, summary,
                    gaps, gap_calls, template_content, populated_content, source_files,
                    metric_call >>

\* a call of get_performance_metric(cache_type, operation)
GetPerformanceMetric ==
    /\ gen_pc = "parsed"
    /\ metric_call = NoneVal
    /\ \E cache_type \in {"caffeine", "default", "jit"}, operation \in {"get_hot", "put"} :
          metric_call' = [cache_type |-> cache_type, operation |-> operation,
                          out |-> get_performance_metric(performance_data, cache_type,
                                                         operation)]
    /\ UNCHANGED << classifyVars, pc, parseVars, reportVars, textVars, gen_pc, performance_data,
                    summary, gaps, gap_calls, template_content, populated_content,
                    source_files >>

NextSources == ProcessMainFile \/ ProcessResultFile \/ EndOfResultFiles \/ GetPerformanceMetric

SpecSources == InitSources /\ [][NextSources]_vars

\* analyze-results.py runs on a results directory: main() is at its start
InitMain ==
    /\ ClassifyIdle
    /\ pc = "idle" /\ listing = << >> /\ current = << >> /\ read_result = NoneVal
    /\ results = EmptyMap /\ first_entry = EmptyMap /\ last_entry = EmptyMap
    /\ stderr = {}
    /\ ReportIdle
    /\ lines = << >>
    /\ text_pc = "start"
    /\ all_results = << >>
    /\ analysis = NoneVal
    /\ results_dir \in {NoneVal} \cup Directories
    /\ result_files = << >>
    /\ reports = << >>
    /\ GeneratorIdle

\* main(): `if not results_dir.exists(): ... sys.exit(1)`
NoDirectory ==
    /\ text_pc = "start"
    /\ results_dir = NoneVal
    /\ text_pc' = "exit"
    /\ UNCHANGED << classifyVars, pc, parseVars, reportVars, generatorVars, lines, all_results, analysis,
                    results_dir, result_files, reports >>

\* main(): `if not result_files: ... sys.exit(1)`
NoResultFiles ==
    /\ text_pc = "start"
    /\ results_dir # NoneVal
    /\ glob(results_dir.files) = << >>
    /\ text_pc' = "exit"
    /\ UNCHANGED << classifyVars, pc, parseVars, reportVars, generatorVars, lines, all_results, analysis,
                    results_dir, result_files, reports >>

\* main(): result_files = list(results_dir.glob('*_results.txt')), not empty
ListResultFiles ==
    /\ text_pc = "start"
    /\ results_dir # NoneVal
    /\ glob(results_dir.files) # << >>
    /\ result_files' = glob(results_dir.files)
    /\ text_pc' = "listed"
    /\ UNCHANGED << classifyVars, pc, parseVars, reportVars, generatorVars, lines, all_results, analysis,
                    results_dir, reports >>

\* main(): `for file_path in result_files` reaches the next file
NextResultFile ==
    /\ text_pc \in {"listed", "parsed"}
    /\ result_files # << >>
    /\ lines' = Head(result_files).lines
    /\ result_files' = Tail(result_files)
    /\ text_pc' = "writing"
    /\ UNCHANGED << classifyVars, pc, parseVars, reportVars, generatorVars, all_results, analysis,
                    results_dir, reports >>

NextMain ==
    \/ NoDirectory \/ NoResultFiles \/ ListResultFiles \/ NextResultFile
    \/ ParseFile \/ NoResults \/ AnalyzeResults \/ WriteReport

SpecMain == InitMain /\ [][NextMain]_vars

\* JMHResultParser(results_dir), before any result is processed: the caller
\* uses calculate_performance_gap on its own
InitGapCall ==
    /\ ClassifyIdle
    /\ pc = "idle" /\ listing = << >> /\ current = << >> /\ read_result = NoneVal
    /\ results = EmptyMap /\ first_entry = EmptyMap /\ last_entry = EmptyMap
    /\ stderr = {}
    /\ ReportIdle
    /\ TextIdle
    /\ gen_pc = "calls"
    /\ performance_data = << >>
    /\ summary = NoneVal
    /\ gaps = NoneVal
    /\ gap_calls = << >>
    /\ template_content = << >>
    /\ populated_content = NoneVal
    /\ source_files = << >>
    /\ metric_call = NoneVal

\* one call of calculate_performance_gap(baseline_score, current_score)
CalculatePerformanceGap ==
    /\ gen_pc = "calls"
    /\ Len(gap_calls) < MaxGapCalls
    /\ \E b, c \in GapScores : \E out \in calculate_performance_gap(b, c) :
          gap_calls' = Append(gap_calls, [baseline_score |-> b, current_score |-> c,
                                          out |-> out])
    /\ UNCHANGED << classifyVars, pc, parseVars, reportVars, textVars, gen_pc,
                    performance_data, summary, gaps, template_content, populated_content, source_files,
                    metric_call >>

NextGapCall == CalculatePerformanceGap

SpecGapCall == InitGapCall /\ [][NextGapCall]_vars

\* f.read() of a template written from these lines of TemplateLines
RECURSIVE TemplateText(_)
TemplateText(ls) ==
    IF ls = << >> THEN << >>
    ELSE TemplateLines[Head(ls)] \o << NewLine >> \o TemplateText(Tail(ls))

\* main() after process_all_results: the sources are parsed
InitTemplate ==
    /\ ClassifyIdle
    /\ pc = "idle" /\ listing = << >> /\ current = << >> /\ read_result = NoneVal
    /\ results = EmptyMap /\ first_entry = EmptyMap /\ last_entry = EmptyMap
    /\ stderr = {}
    /\ ReportIdle
    /\ TextIdle
    /\ gen_pc = "parsed"
    /\ performance_data \in DataSets
    /\ summary = NoneVal
    /\ gaps = NoneVal
    /\ gap_calls = << >>
    /\ template_content = << >>
    /\ populated_content = NoneVal
    /\ source_files = << >>
    /\ metric_call = NoneVal

\* the template file gets one more line before generate_analysis_file reads it
WriteTemplateLine ==
    /\ gen_pc = "ready"
    /\ Len(template_content) < MaxTemplateLines
    /\ \E i \in 1..Len(TemplateLines) : template_content' = Append(template_content, i)
    /\ UNCHANGED << classifyVars, pc, parseVars, reportVars, textVars, gen_pc,
                    performance_data, summary, gaps, gap_calls, populated_content, source_files,
                    metric_call >>

\* PerformanceAnalysisGenerator.__init__
GeneratorInit ==
    /\ gen_pc = "parsed"
    /\ summary' \in generate_performance_summary(performance_data)
    /\ gaps' \in generate_gap_analysis(summary')
    /\ gen_pc' = "ready"
    /\ UNCHANGED << classifyVars, pc, parseVars, reportVars, textVars, performance_data,
                    gap_calls, template_content, populated_content, source_files,
                    metric_call >>

\* generate_analysis_file: populated_content = populate_placeholders(template_content)
PopulatePlaceholders ==
    /\ gen_pc = "ready"
    /\ \E ties_up \in SUBSET ThroughputTies(summary) :
          populated_content' = populate_placeholders(TemplateText(template_content), summary,
                                                     gaps, ties_up)
    /\ gen_pc' = "written"
    /\ UNCHANGED << classifyVars, pc, parseVars, reportVars, textVars, performance_data,
                    summary, gaps, gap_calls, template_content, source_files, metric_call >>

NextTemplate == GeneratorInit \/ WriteTemplateLine \/ PopulatePlaceholders

SpecTemplate == InitTemplate /\ [][NextTemplate]_vars

\* -------------------------------------------------------------- properties
Range(s) == {s[i] : i \in DOMAIN s}

\* C1: after any sequence of parsed entries the aggregation holds, for every key
\* (suite, implementation, operation_key) an entry was filed under, exactly one
\* record, filed under its own key, and its score, error and unit are those of
\* the last entry that classified to the key.
C1_LastWriteWins ==
    /\ DOMAIN results = DOMAIN last_entry
    /\ \A key \in DOMAIN results :
          /\ KeyOf(results[key]) = key
          /\ results[key].score = ParseMetric(last_entry[key], "score")
          /\ results[key].error = ParseMetric(last_entry[key], "scoreError")
          /\ results[key].unit = ParseUnit(last_entry[key])

\* C1 witness: a key was written twice with different scores, and holds the later one
C1_Overwritten ==
    \E key \in DOMAIN results :
        /\ ParseMetric(first_entry[key], "score") # ParseMetric(last_entry[key], "score")
        /\ results[key].score = ParseMetric(last_entry[key], "score")

\* the spec's structured scenario entry
ScenarioEntry ==
    Entry(JStr(<<"x",".","j","c","a","c","h","e","x","Z","e","r","o","C","o","p","y","G","e","t","C","o","l","d">>), JStr(<<"2",".","1">>), JStr(<<"0",".","0","5">>),
          JUnit("ops/ns"), Missing)

\* C10: a stored record whose entry has unit tag 'ops/ns' holds the entry's score
\* and error times 1e9 and the unit 'ops/s' (score '2.1', error '0.05' give 2.1e9
\* and 5e7); with any other unit tag it holds the entry's score, error and unit
\* as given (0.0 standing for a value float() does not take).
C10_UnitConversion ==
    \A key \in DOMAIN results :
        LET pm == last_entry[key].primaryMetric
            rec == results[key]
            Given(field) == IF pm[field].k # "missing" /\ py_float(pm[field]).ok
                            THEN py_float(pm[field]).v ELSE Zero
        IN  /\ IF pm.scoreUnit.s = "ops/ns"
               THEN /\ rec.unit = "ops/s"
                    /\ rec.score = Times(Given("score"), 1, 9)
                    /\ rec.error = Times(Given("scoreError"), 1, 9)
               ELSE /\ rec.unit = pm.scoreUnit.s
                    /\ rec.score = Given("score")
                    /\ rec.error = Given("scoreError")
            /\ last_entry[key] = ScenarioEntry =>
                  /\ rec.score = Num(21, 8)
                  /\ rec.error = Num(5, 7)
                  /\ rec.unit = "ops/s"

\* C10 witness: the scenario entry is stored converted beside a record whose
\* 'ns/op' values are stored as given
C10_Converted ==
    \E k1, k2 \in DOMAIN results :
        /\ last_entry[k1] = ScenarioEntry
        /\ results[k1].score = Num(21, 8) /\ results[k1].unit = "ops/s"
        /\ last_entry[k2].primaryMetric.scoreUnit.s = "ns/op"
        /\ results[k2].unit = "ns/op" /\ results[k2].error = Num(412, 0 - 3)

\* the profile tokens the lower-cased trailing segment of the name contains
ProfilesIn(name) ==
    {i \in 1..Len(jcachex_profiles) : Contains(jcachex_profiles[i][1], method_name(name))}
LibrariesIn(name) ==
    {i \in 1..Len(other_implementations) :
        Contains(other_implementations[i][1], method_name(name))}

\* C6: a name whose lower-cased trailing segment contains a JCacheX profile token
\* is classified as a profile whose token it contains, never as a library label
\* ('JCache', 'Caffeine', ...) or 'Unknown', whatever library tokens it also
\* contains; a name with no profile and no library token is 'Unknown'.
C6_SpecificBeforeGeneric ==
    benchmark_result # << >> =>
        LET impl == benchmark_result[1].cache_impl IN
        /\ ProfilesIn(benchmark_name) # {} =>
              /\ impl \in {jcachex_profiles[i][2] : i \in ProfilesIn(benchmark_name)}
              /\ impl \notin {other_implementations[i][2] :
                                 i \in 1..Len(other_implementations)} \cup {"Unknown"}
        /\ (ProfilesIn(benchmark_name) = {} /\ LibrariesIn(benchmark_name) = {}) =>
              impl = "Unknown"

\* C6 witness: a name with a profile token and two library tokens ('caffeine',
\* and the 'jcache' inside 'jcachexdefault') is classified as the profile
C6_ProfileAmongLibraries ==
    /\ benchmark_result # << >>
    /\ Contains(<<"j","c","a","c","h","e","x","d","e","f","a","u","l","t">>, method_name(benchmark_name))
    /\ Contains(<<"c","a","f","f","e","i","n","e">>, method_name(benchmark_name))
    /\ benchmark_result[1].cache_impl = "JCacheX-Default"

\* the seven stress/endurance tokens of the operation rule, with their variants
StressTokens ==
    << << <<"e","x","t","r","e","m","e","c","o","n","t","e","n","t","i","o","n">>, "EXTREME_CONTENTION" >>,
       << <<"m","e","m","o","r","y","p","r","e","s","s","u","r","e">>, "MEMORY_PRESSURE" >>,
       << <<"z","i","p","f","i","a","n">>, "ZIPFIAN_ACCESS" >>,
       << <<"e","v","i","c","t","i","o","n","s","t","r","e","s","s">>, "EVICTION_STRESS" >>,
       << <<"s","u","s","t","a","i","n","e","d","l","o","a","d">>, "SUSTAINED_LOAD" >>,
       << <<"g","c","p","r","e","s","s","u","r","e">>, "GC_PRESSURE" >>,
       << <<"b","u","r","s","t","l","o","a","d">>, "BURST_LOAD" >> >>

\* the tokens the code tests between the stress tokens
InterleavedTokens == { <<"m","i","x","e","d","r","e","a","d">>, <<"m","i","x","e","d","w","r","i","t","e">>, <<"m","i","x","e","d","r","e","m","o","v","e">>, <<"m","e","m","o","r","y","l","e","a","k","t","e","s","t">> }

StressIn(name) ==
    {i \in 1..Len(StressTokens) : Contains(StressTokens[i][1], method_name(name))}
HasToken(name, token) == Contains(token, method_name(name))

\* the get/put rule: GET before PUT, THROUGHPUT exactly with 'throughput'
GetPutRule(name, op) ==
    IF HasToken(name, <<"g","e","t">>)
    THEN op = IF HasToken(name, <<"t","h","r","o","u","g","h","p","u","t">>) THEN "GET_THROUGHPUT" ELSE "GET_LATENCY"
    ELSE IF HasToken(name, <<"p","u","t">>)
    THEN op = IF HasToken(name, <<"t","h","r","o","u","g","h","p","u","t">>) THEN "PUT_THROUGHPUT" ELSE "PUT_LATENCY"
    ELSE TRUE

OperationLabels ==
    { "EXTREME_CONTENTION", "MEMORY_PRESSURE", "ZIPFIAN_ACCESS", "EVICTION_STRESS",
      "MIXED_READ", "MIXED_WRITE", "MIXED_REMOVE", "SUSTAINED_LOAD", "GC_PRESSURE",
      "MEMORY_LEAK_TEST", "BURST_LOAD", "GET_THROUGHPUT", "GET_LATENCY",
      "PUT_THROUGHPUT", "PUT_LATENCY", "REMOVE_LATENCY", "MIXED_THROUGHPUT",
      "READ_HEAVY", "WRITE_HEAVY", "HIGH_CONTENTION" }

\* C8: every name is classified: the implementation is one of the analyzer's
\* cache_implementations or 'Unknown', the operation one of the operation labels
\* or 'UNKNOWN', the thread count the entry's or 1 without one; 'foo.bar123'
\* without a thread count is ('Unknown', 'UNKNOWN', 1); and the record is filed
\* under (suite, implementation, operation_key).
C8_ClassificationTotal ==
    /\ benchmark_result # << >> =>
          LET br == benchmark_result[1] IN
          /\ br.cache_impl \in Range(cache_implementations) \cup {"Unknown"}
          /\ br.operation_type \in OperationLabels \cup {"UNKNOWN"}
          /\ br.threads = IF entry_threads = Missing THEN 1 ELSE entry_threads.v
          /\ br.operation_key = << br.operation_type, br.threads >>
          /\ (benchmark_name = <<"f","o","o",".","b","a","r","1","2","3">> /\ entry_threads = Missing) =>
                /\ br.cache_impl = "Unknown"
                /\ br.operation_type = "UNKNOWN"
                /\ br.threads = 1
    /\ results # EmptyMap =>
          LET br == benchmark_result[1] IN
          /\ DOMAIN results = {<< "basic_operations", br.cache_impl, br.operation_key >>}
          /\ results[<< "basic_operations", br.cache_impl, br.operation_key >>] = br

\* C8 witness: the record of 'foo.bar123' is stored under the sentinels
C8_UnknownStored ==
    /\ benchmark_name = <<"f","o","o",".","b","a","r","1","2","3">>
    /\ << "basic_operations", "Unknown", << "UNKNOWN", 1 >> >> \in DOMAIN results

\* the enumerated implementations that have a record in some suite
WithData == {impl \in Range(cache_implementations) :
                \E key \in DOMAIN results : key[2] = impl}

\* every record of the implementation has a non-negative score
NonNegative(impl) ==
    \A key \in DOMAIN results : key[2] = impl => ~Less(results[key].score, Zero)

\* C2: once the comparison has run, every implementation with a record in some suite (its recorded scores
\* non-negative) has a composite score that is a number, not None, and lies in
\* 0..100.
C2_CompositeDefinedAndBounded ==
    pc = "reported" =>
    \A impl \in WithData :
        NonNegative(impl) =>
            LET score == _calculate_overall_score(results, impl) IN
            /\ score # NoneVal
            /\ ~Less(score, Zero)
            /\ ~Less(Num(100, 0), score)

IndexOf(impl) == CHOOSE i \in 1..Len(cache_implementations) : cache_implementations[i] = impl

\* C3: the printed ranking lists exactly the enumerated implementations whose
\* composite score is defined, each once, with ranks 1..n and its composite
\* score, in descending order of score, equal scores in enumeration order.
C3_RankingExact ==
    pc = "reported" =>
        LET defined == {impl \in Range(cache_implementations) :
                           _calculate_overall_score(results, impl) # NoneVal}
        IN  /\ {ranking[i].cache_impl : i \in DOMAIN ranking} = defined
            /\ Len(ranking) = Cardinality(defined)
            /\ \A i \in DOMAIN ranking :
                  /\ ranking[i].rank = i
                  /\ ranking[i].score =
                         _calculate_overall_score(results, ranking[i].cache_impl)
            /\ \A i, j \in DOMAIN ranking :
                  i < j =>
                     /\ ~Less(ranking[i].score, ranking[j].score)
                     /\ ranking[i].score = ranking[j].score =>
                           IndexOf(ranking[i].cache_impl) < IndexOf(ranking[j].cache_impl)

\* a suite's score for the weighted sum: 0 for a suite without data or score
SuiteTerm(impl, suite_type) ==
    IF \E key \in DOMAIN results : key[1] = suite_type /\ key[2] = impl
    THEN LET s == _calculate_suite_score(results, impl, suite_type)
         IN  IF s = NoneVal THEN Zero ELSE s
    ELSE Zero

\* C4: once the comparison has run, for an implementation with data in some suite the composite score equals
\* 0.30 basic_operations + 0.40 throughput + 0.20 concurrent_operations
\* + 0.10 mean(hardcore_stress, endurance_tests), a suite without data counting 0.
C4_CompositeWeighting ==
    pc = "reported" =>
    \A impl \in WithData :
        _calculate_overall_score(results, impl) =
            Add(Add(Times(SuiteTerm(impl, "basic_operations"), 3, 0 - 1),
                    Times(SuiteTerm(impl, "throughput"), 4, 0 - 1)),
                Add(Times(SuiteTerm(impl, "concurrent_operations"), 2, 0 - 1),
                    Times(Add(SuiteTerm(impl, "hardcore_stress"),
                              SuiteTerm(impl, "endurance_tests")), 5, 0 - 2)))

\* C5: once the comparison has run: with a non-negative GET_THROUGHPUT_1T record in the throughput suite the
\* suite score is min(throughput / 1e6, 100); with a non-negative GET_LATENCY_1T
\* record in basic_operations it is max(0, 100 - latency); 0 and latencies of
\* 100 or more included.
C5_PerSuiteScoring ==
    pc = "reported" =>
    \A impl \in Range(cache_implementations) :
        LET tkey == << "throughput", impl, operation_key("GET_THROUGHPUT", 1) >>
            lkey == << "basic_operations", impl, operation_key("GET_LATENCY", 1) >>
        IN  /\ (tkey \in DOMAIN results /\ ~Less(results[tkey].score, Zero)) =>
                  _calculate_suite_score(results, impl, "throughput") =
                      py_min(Times(results[tkey].score, 1, 0 - 6), Num(100, 0))
            /\ (lkey \in DOMAIN results /\ ~Less(results[lkey].score, Zero)) =>
                  _calculate_suite_score(results, impl, "basic_operations") =
                      py_max(Zero, HundredMinus(results[lkey].score))

\* the spec's free-text scenario: the line, and the dict it is parsed to
ScenarioLine == <<"c","a","f","f","e","i","n","e",".","g","e","t","H","o","t"," ","a","v","g","t"," ","1","0"," ","1","5",".","2","3","0"," ","+-"," ","0",".","4","1","2"," ","n","s","/","o","p">>
ScenarioResult ==
    [benchmark |-> <<"c","a","f","f","e","i","n","e",".","g","e","t","H","o","t">>, mode |-> <<"a","v","g","t">>, count |-> 10,
     score |-> Num(1523, 0 - 2), error |-> Num(412, 0 - 3), unit |-> <<"n","s","/","o","p">>]

\* the lines of TextLines that have the six columns and numeric score and error
RecordLines ==
    { <<"c","a","f","f","e","i","n","e",".","g","e","t","H","o","t"," ","a","v","g","t"," ","1","0"," ","1","5",".","2","3","0"," ","+-"," ","0",".","4","1","2"," ","n","s","/","o","p">>,
      <<"C","a","c","h","e","B","e","n","c","h",".","j","c","a","c","h","e","X","G","e","t"," "," ","a","v","g","t"," "," ","1","0"," "," ","2","5",".","5"," ","+-"," "," ","1",".","2"," "," ","n","s","/","o","p">>,
      <<"C","a","c","h","e","B","e","n","c","h",".","c","a","f","f","e","i","n","e","P","u","t","T","h","r","o","u","g","h","p","u","t"," ","t","h","r","p","t"," ","5"," ","2","1","0","0","0","0","0"," ","+-"," ","5","0","0","0","0"," ","o","p","s","/","s">> }

\* every line of a parsed file that has the form yields one record, the
\* scenario line the scenario's score, error and unit
OneRecordPerLine ==
    text_pc \in {"parsed", "exit", "analyzed"} =>
        /\ Len(all_results) = Cardinality({i \in DOMAIN lines : lines[i] \in RecordLines})
        /\ Cardinality({i \in DOMAIN all_results : all_results[i] = ScenarioResult})
               = Cardinality({i \in DOMAIN lines : lines[i] = ScenarioLine})

\* the analysis files every record of the scenario identifier under this
\* library and operation, with the scenario's score, error and unit
ScenarioFiledAs(library, operation) ==
    text_pc = "analyzed" =>
        \A lib \in DOMAIN analysis.performance_by_library :
            \A i \in DOMAIN analysis.performance_by_library[lib] :
                LET data == analysis.performance_by_library[lib][i] IN
                data.benchmark = ScenarioResult.benchmark =>
                    /\ lib = library
                    /\ data.operation = operation
                    /\ data.score = Num(1523, 0 - 2)
                    /\ data.error = Num(412, 0 - 3)
                    /\ data.unit = <<"n","s","/","o","p">>

Renormalised(rec) ==
    Entry(JStr(rec.benchmark_name), rec.score, rec.error, JUnit(rec.unit), Missing)

\* C11: unit normalization applied to the triple (score, error, unit) of a stored
\* record returns that triple unchanged, and an entry whose unit tag is 'ops/s'
\* or 'ns/op' with numeric score and error is stored with its triple as given.
C11_NormalizationIdempotent ==
    \A key \in DOMAIN results :
        LET rec == results[key]
            pm == last_entry[key].primaryMetric
        IN  /\ ~Raises(Renormalised(rec))
            /\ ParseMetric(Renormalised(rec), "score") = rec.score
            /\ ParseMetric(Renormalised(rec), "scoreError") = rec.error
            /\ ParseUnit(Renormalised(rec)) = rec.unit
            /\ (pm.scoreUnit.s \in {"ops/s", "ns/op"} /\ pm.score.k = "num"
                    /\ pm.scoreError.k = "num")
               => /\ rec.score = pm.score /\ rec.error = pm.scoreError
                  /\ rec.unit = pm.scoreUnit.s

\* C11 witness: a record converted from 'ops/ns' is normalised again and keeps
\* its score 2.1e9, error 5e7 and unit 'ops/s'
C11_ConvertedTwice ==
    \E key \in DOMAIN results :
        /\ last_entry[key] = ScenarioEntry
        /\ ParseMetric(Renormalised(results[key]), "score") = Num(21, 8)
        /\ ParseMetric(Renormalised(results[key]), "scoreError") = Num(5, 7)
        /\ ParseUnit(Renormalised(results[key])) = "ops/s"

\* the value is absent or float() does not take it
BadNumber(v) == v.k = "missing" \/ ~py_float(v).ok

\* an entry with a name, a primary-metric object and a unit tag whose score or
\* score error is missing or non-numeric
HasBadNumber(entry) ==
    /\ entry # NoneVal
    /\ entry.benchmark.k = "str"
    /\ entry.primaryMetric.k = "obj"
    /\ entry.primaryMetric.scoreUnit.k = "str"
    /\ BadNumber(entry.primaryMetric.score) \/ BadNumber(entry.primaryMetric.scoreError)

\* C12: a pass of the entry loop over an entry (with a name, a primary-metric
\* object and a unit tag) whose score or scoreError is missing or non-numeric
\* raises nothing (the file stays open, nothing is printed) and stores a record
\* in which that field is 0.0 and the other field is its parsed value (times 1e9
\* under 'ops/ns').
C12_BadNumbersDefault ==
    [][ (/\ current # << >>
         /\ ~(current' = << >> /\ stderr' = stderr)
         /\ HasBadNumber(read_result'))
        => LET pm == read_result'.primaryMetric
               Parsed(field) ==
                   IF BadNumber(pm[field]) THEN Zero
                   ELSE IF pm.scoreUnit.s = "ops/ns"
                        THEN Times(py_float(pm[field]).v, 1, 9)
                   ELSE py_float(pm[field]).v
           IN  /\ stderr' = stderr
               /\ current' = current
               /\ \E key \in DOMAIN results' :
                     /\ last_entry'[key] = read_result'
                     /\ results'[key].benchmark_name = read_result'.benchmark.s
                     /\ results'[key].score = Parsed("score")
                     /\ results'[key].error = Parsed("scoreError") ]_vars

\* C12 witness: the entry with score 'abc' and error 0.412 was read and is stored
\* with score 0.0 and error 0.412, its file still open
C12_DefaultedStored ==
    /\ HasBadNumber(read_result)
    /\ read_result.primaryMetric.score = JStr(<<"a","b","c">>)
    /\ current # << >> /\ current[1] \notin stderr
    /\ \E key \in DOMAIN results :
          /\ last_entry[key] = read_result
          /\ results[key].score = Zero
          /\ results[key].error = Num(412, 0 - 3)

\* C13: every record of the aggregation has score >= 0 and error >= 0, and no
\* record comes from an entry whose score is negative or unparsable.
C13_NonNegativeRecords ==
    \A key \in DOMAIN results :
        /\ ~Less(results[key].score, Zero)
        /\ ~Less(results[key].error, Zero)
        /\ ~BadNumber(last_entry[key].primaryMetric.score)
        /\ ~Less(py_float(last_entry[key].primaryMetric.score).v, Zero)

\* C14: a constructed record has a thread count that is a positive integer, 1
\* when the entry carries none, and its operation_key is formatted from its
\* operation and that count.
C14_ThreadCountPositive ==
    benchmark_result # << >> =>
        /\ benchmark_result[1].threads >= 1
        /\ entry_threads = Missing => benchmark_result[1].threads = 1
        /\ benchmark_result[1].operation_key =
              operation_key(benchmark_result[1].operation_type, benchmark_result[1].threads)

C16_FailedFileLeavesNothing ==
    \A f \in stderr : \A key \in DOMAIN results : key[1] # SuiteOf(f)

\* both scores of a call as integers over a common power of ten
CallBaseline(call) == Mant(call.baseline_score, MinExp(call.baseline_score, call.current_score))
CallCurrent(call) == Mant(call.current_score, MinExp(call.baseline_score, call.current_score))
BothPositive(call) == Less(Zero, call.baseline_score) /\ Less(Zero, call.current_score)
Larger(call) == IF CallBaseline(call) >= CallCurrent(call) THEN CallBaseline(call)
                ELSE CallCurrent(call)
Smaller(call) == IF CallBaseline(call) >= CallCurrent(call) THEN CallCurrent(call)
                 ELSE CallBaseline(call)
\* max / min lies exactly halfway between two tenths
Halfway(call) == (20 * Larger(call)) % Smaller(call) = 0
                 /\ ((20 * Larger(call)) \div Smaller(call)) % 2 = 1

\* C17: every call with baseline b > 0 and candidate c > 0 returns
\* '<ratio>x faster' when c <= b and '<ratio>x slower' when c > b, where the
\* ratio printed is max(b, c) / min(b, c) to one decimal (a nearest tenth) and
\* is at least 1.0.
C17_GapWording ==
    \A i \in DOMAIN gap_calls :
        BothPositive(gap_calls[i]) =>
            LET call == gap_calls[i] IN
            /\ call.out.k = "gap"
            /\ call.out.word = IF CallCurrent(call) <= CallBaseline(call) THEN "faster"
                               ELSE "slower"
            /\ call.out.tenths >= 10
            /\ 2 * (10 * Larger(call) - call.out.tenths * Smaller(call)) <= Smaller(call)
            /\ 2 * (call.out.tenths * Smaller(call) - 10 * Larger(call)) <= Smaller(call)

\* C17 witness: baseline 100 with candidate 12.5 gave '8.0x faster', baseline
\* 12.5 with candidate 100 gave '8.0x slower'
C17_FasterAndSlower ==
    /\ Len(gap_calls) = 2
    /\ gap_calls[1] = [baseline_score |-> Num(100, 0), current_score |-> Num(125, 0 - 1),
                       out |-> Gap(80, "faster")]
    /\ gap_calls[2] = [baseline_score |-> Num(125, 0 - 1), current_score |-> Num(100, 0),
                       out |-> Gap(80, "slower")]

\* call j has the scores of call i exchanged
Exchanged(i, j) ==
    /\ gap_calls[i].baseline_score = gap_calls[j].current_score
    /\ gap_calls[i].current_score = gap_calls[j].baseline_score

\* C18 as stated: for b > 0 and c > 0, gap(b, c) and gap(c, b) print the same
\* ratio, one with 'faster' and the other with 'slower'.
C18_GapSymmetry ==
    \A i, j \in DOMAIN gap_calls :
        (Exchanged(i, j) /\ BothPositive(gap_calls[i])) =>
            /\ gap_calls[i].out.k = "gap" /\ gap_calls[j].out.k = "gap"
            /\ gap_calls[i].out.tenths = gap_calls[j].out.tenths
            /\ {gap_calls[i].out.word, gap_calls[j].out.word} = {"faster", "slower"}

\* C18 amended: for b > 0 and c > 0 with b # c, gap(b, c) and gap(c, b) say
\* 'faster' in one and 'slower' in the other, and print the same ratio unless
\* max / min lies exactly halfway between two tenths, when the two may differ by
\* 0.1; for b = c both are '1.0x faster'.
C18_GapSymmetryOffTies ==
    \A i, j \in DOMAIN gap_calls :
        (Exchanged(i, j) /\ BothPositive(gap_calls[i])) =>
            /\ gap_calls[i].out.k = "gap" /\ gap_calls[j].out.k = "gap"
            /\ IF gap_calls[i].baseline_score = gap_calls[i].current_score
               THEN gap_calls[i].out = Gap(10, "faster") /\ gap_calls[j].out = Gap(10, "faster")
               ELSE /\ {gap_calls[i].out.word, gap_calls[j].out.word} = {"faster", "slower"}
                    /\ gap_calls[i].out.tenths - gap_calls[j].out.tenths \in {0 - 1, 0, 1}
                    /\ ~Halfway(gap_calls[i])
                       => gap_calls[i].out.tenths = gap_calls[j].out.tenths

\* C18 witness: baseline 4 with candidate 100 gave '25.0x slower' and baseline
\* 100 with candidate 4 gave '25.0x faster'
C18_ExchangedCalls ==
    /\ Len(gap_calls) = 2
    /\ Exchanged(1, 2)
    /\ gap_calls[1].baseline_score = Num(4, 0) /\ gap_calls[1].current_score = Num(100, 0)
    /\ gap_calls[1].out = Gap(250, "slower")
    /\ gap_calls[2].out = Gap(250, "faster")

\* C19: no call of calculate_performance_gap with scores >= 0 ends in a division
\* fault, and a call with baseline 0 returns 'N/A'.
C19_GapNeverFaults ==
    \A i \in DOMAIN gap_calls :
        /\ gap_calls[i].out.k # "raise"
        /\ gap_calls[i].baseline_score = Zero => gap_calls[i].out = Text("N/A")

\* the names of the placeholder table
PlaceholderNames == DOMAIN placeholders(EmptyMap, EmptyMap, {})

\* how often the token '{{name}}' occurs in the text
Occurrences(pieces, name) ==
    Cardinality({i \in DOMAIN pieces : pieces[i] = Token(name)})

\* C20: populate_placeholders returns a text in which no token of the
\* placeholder table is left and every token with another name occurs as often
\* as in the template.
C20_PlaceholdersSubstituted ==
    gen_pc = "written" =>
        /\ \A i \in DOMAIN populated_content :
              populated_content[i].k = "token"
              => populated_content[i].name \notin PlaceholderNames
        /\ \A i \in DOMAIN TemplateText(template_content) :
              LET piece == TemplateText(template_content)[i] IN
              (piece.k = "token" /\ piece.name \notin PlaceholderNames)
              => Occurrences(populated_content, piece.name)
                 = Occurrences(TemplateText(template_content), piece.name)

\* the run of analyze-results.py ended with a non-zero exit status: by
\* sys.exit(1), or by the traceback of an exception nothing catches
RunFailed == text_pc \in {"exit", "raised"}

\* the results directory does not exist, holds no '*_results.txt' file, or
\* the files read yielded no record
NoData ==
    \/ results_dir = NoneVal
    \/ glob(results_dir.files) = << >>
    \/ all_results = << >>

\* C21: a run of the analyzer that has ended has failed (non-zero exit, no
\* report written) exactly when the results directory does not exist, holds no
\* recognized result file, or its files yielded no record in total; every
\* other run has written exactly one report.
C21_NoDataEscalation ==
    text_pc \in {"exit", "raised", "done"} =>
        /\ RunFailed <=> NoData
        /\ RunFailed => reports = << >>
        /\ ~RunFailed => Len(reports) = 1

\* the analysis entry carries the benchmark, score, error, unit and mode of the record
Placed(data, result) ==
    /\ data.benchmark = result.benchmark
    /\ data.score = result.score
    /\ data.error = result.error
    /\ data.unit = result.unit
    /\ data.mode = result.mode

\* the places (key, index) of a grouping where the record is filed
PlacesIn(grouping, result) ==
    {place \in UNION {{<< key, i >> : i \in DOMAIN grouping[key]} : key \in DOMAIN grouping} :
        Placed(grouping[place[1]][place[2]], result)}

\* the parsed records equal to this one in the five fields
CopiesOf(result) == {j \in DOMAIN all_results : Placed(all_results[j], result)}

\* the rows of the delimited export that carry the record, each of seven
\* cells: a library and an operation the analysis files it under, then its fields
RowsOf(rows, result) ==
    {k \in 2..Len(rows) :
        /\ Len(rows[k]) = 7
        /\ \E place \in PlacesIn(analysis.performance_by_library, result) : rows[k][1] = place[1]
        /\ \E place \in PlacesIn(analysis.performance_by_operation, result) : rows[k][2] = place[1]
        /\ rows[k][3] = result.benchmark
        /\ rows[k][4] = result.score
        /\ rows[k][5] = result.error
        /\ rows[k][6] = result.unit
        /\ rows[k][7] = result.mode}

\* the delimited export was written
CsvWritten == text_pc = "done" /\ reports[1].file = "benchmark_analysis.csv"

\* C22: analyze_results files each parsed record once under one library and
\* once under one operation, total_benchmarks is the number of records, and
\* the delimited export has the header library, operation, benchmark, score,
\* error, unit, mode and one row per record.
C22_RecordConservation ==
    text_pc \in {"analyzed", "done"} =>
        /\ analysis.total_benchmarks = Len(all_results)
        /\ \A i \in DOMAIN all_results :
              /\ Cardinality(PlacesIn(analysis.performance_by_library, all_results[i]))
                     = Cardinality(CopiesOf(all_results[i]))
              /\ Cardinality({place[1] : place \in
                                 PlacesIn(analysis.performance_by_library, all_results[i])}) = 1
              /\ Cardinality(PlacesIn(analysis.performance_by_operation, all_results[i]))
                     = Cardinality(CopiesOf(all_results[i]))
              /\ Cardinality({place[1] : place \in
                                 PlacesIn(analysis.performance_by_operation, all_results[i])}) = 1
        /\ CsvWritten =>
              /\ reports[1].content[1]
                     = << "library", "operation", "benchmark", "score", "error", "unit", "mode" >>
              /\ Len(reports[1].content) = 1 + Len(all_results)
              /\ \A i \in DOMAIN all_results :
                    Cardinality(RowsOf(reports[1].content, all_results[i]))
                        = Cardinality(CopiesOf(all_results[i]))

\* C22 witness: the export of two records of one library and two operations,
\* and the export of the same record parsed twice
C22_TwoRecordsExported ==
    /\ CsvWritten
    /\ Len(all_results) = 2
    /\ \/ /\ DOMAIN analysis.performance_by_library = {"Caffeine"}
          /\ DOMAIN analysis.performance_by_operation = {"OTHER", "PUT"}
       \/ all_results[1] = all_results[2]

\* the explicit thread-count tokens, in the order they are looked for
ExplicitTokens ==
    << << <<"3","2","t">>, 32 >>, << <<"1","6","t">>, 16 >>, << <<"8","t">>, 8 >>, << <<"4","t">>, 4 >>, << <<"1","t">>, 1 >> >>

\* the explicit tokens the lower-cased name holds
ExplicitIn(name) == {i \in DOMAIN ExplicitTokens : Contains(ExplicitTokens[i][1], lower(name))}

\* the numbers N that stand in the name right after a 'threads', one '_' between allowed
NumbersAfterThreads(name) ==
    LET s == lower(name) IN
    {DigitsValue(SubSeq(s, d, Run(s, d, DOMAIN DigitValue) - 1)) :
        d \in {d \in 8..Len(s) :
                  /\ IsDigit(s[d])
                  /\ \/ At(<<"t","h","r","e","a","d","s">>, s, d - 7)
                     \/ d > 8 /\ At(<<"t","h","r","e","a","d","s","_">>, s, d - 8)}}

\* C23: _extract_thread_count returns the count of the first explicit token
\* ('32t', '16t', '8t', '4t', '1t') the name holds; without one, N for a name
\* that embeds 'threads' followed by the positive number N; and 1 for a name
\* without an explicit token and without digits after a 'threads'.
C23_ThreadCountResolution ==
    thread_count # << >> =>
        IF ExplicitIn(benchmark_name) # {}
        THEN thread_count[1]
                 = ExplicitTokens[CHOOSE i \in ExplicitIn(benchmark_name) :
                                     \A j \in ExplicitIn(benchmark_name) : i <= j][2]
        ELSE /\ \A N \in NumbersAfterThreads(benchmark_name) :
                   (N > 0 /\ Cardinality(NumbersAfterThreads(benchmark_name)) = 1)
                       => thread_count[1] = N
             /\ ThreadsThenDigit(lower(benchmark_name)) = {} => thread_count[1] = 1

\* C24: a pass of the loop over the entries of an open file that reads an
\* unparsable entry (no 'benchmark', 'primaryMetric' or 'scoreUnit') skips
\* that entry only: the file stays open, the records stored so far stay, and
\* the loop goes on to the entries after it.
C24_EntryFailureLocal ==
    [][ (current # << >> /\ read_result' # NoneVal /\ Raises(read_result') /\ stderr' # stderr)
            => (current' = current /\ results' = results /\ pc' = "listing") ]_vars

\* C25: parse_jmh_results raises on no line: whatever the lines of the file
\* are, the call returns, with one record for every line that has the six
\* columns and none for the others (a line whose score or error is '1.2.3'
\* or '.' included).
C25_FreeTextNeverRaises ==
    /\ text_pc # "raised"
    /\ text_pc = "parsed" =>
          Len(all_results) = Cardinality({i \in DOMAIN lines : lines[i] \in RecordLines})

\* the matches of a parsed file that name this (cache type, operation)
MatchesOf(matches, cache_type, operation) ==
    {k \in DOMAIN matches :
        /\ Len(matches[k].method_parts) >= 2
        /\ matches[k].method_parts[1] = cache_type
        /\ join[Tail(matches[k].method_parts)] = operation}

\* the parsed files that hold a line for the pair of the call
Holders == {i \in DOMAIN source_files :
               MatchesOf(source_files[i], metric_call.cache_type, metric_call.operation) # {}}

\* the numbers the score texts of the enumerated lines stand for
ScoreValue ==
    <<"4",".","0">> :> Num(4, 0) @@ <<"4","9",".","0">> :> Num(49, 0) @@ <<"1","5",".","2","3">> :> Num(1523, 0 - 2)

\* C26: get_performance_metric returns None exactly when no parsed source has
\* a line for the (cache type, operation); otherwise it returns the metric of
\* the source processed first among those that have one, and of that source
\* the last line for the pair.
C26_SourcePrecedence ==
    metric_call # NoneVal =>
        IF Holders = {} THEN metric_call.out = NoneVal
        ELSE LET first == CHOOSE i \in Holders : \A j \in Holders : i <= j
                 lines_of == MatchesOf(source_files[first], metric_call.cache_type,
                                       metric_call.operation)
                 last == CHOOSE k \in lines_of : \A l \in lines_of : l <= k
             IN  /\ metric_call.out # NoneVal
                 /\ metric_call.out.score = ScoreValue[source_files[first][last].score]

\* C26 witness: two sources hold the pair with different scores, the first
\* one on two lines, and the call returned the score of its second line
C26_TwoSourcesHold ==
    /\ metric_call # NoneVal
    /\ Cardinality(Holders) >= 2
    /\ \E i \in Holders :
          /\ \A j \in Holders : i <= j
          /\ Cardinality(MatchesOf(source_files[i], metric_call.cache_type,
                                    metric_call.operation)) = 2
          /\ source_files[i][1].score = <<"4",".","0">>
          /\ source_files[i][2].score = <<"1","5",".","2","3">>
    /\ \E i \in Holders : source_files[i][1].score = <<"4","9",".","0">>
    /\ metric_call.out.score = Num(1523, 0 - 2)

\* the implementation tokens and the operation suffixes of the vocabulary
ImplementationTokens ==
    { <<"j","c","a","c","h","e","x","D","e","f","a","u","l","t">>, <<"j","c","a","c","h","e","x","W","r","i","t","e","H","e","a","v","y">>, <<"j","c","a","c","h","e","x","C","o","m","p","u","t","e","C","a","c","h","e">>, <<"j","c","a","c","h","e","x","Z","e","r","o","C","o","p","y">>,
      <<"c","a","f","f","e","i","n","e">>, <<"c","o","n","c","u","r","r","e","n","t","M","a","p">>, <<"j","c","a","c","h","e">> }
OperationSuffixes ==
    { <<"G","e","t">>, <<"P","u","t">>, <<"R","e","m","o","v","e">>, <<"M","i","x","e","d">>, <<"T","h","r","o","u","g","h","p","u","t">>, <<"E","x","t","r","e","m","e","C","o","n","t","e","n","t","i","o","n">>,
      <<"S","u","s","t","a","i","n","e","d","L","o","a","d">>, <<"B","u","r","s","t","L","o","a","d">>, <<"M","i","x","e","d","R","e","a","d">>, <<"H","i","g","h","C","o","n","t","e","n","t","i","o","n">> }

\* C27: the operation of a constructed BenchmarkResult whose name is an
\* implementation token followed by an operation suffix is the operation
\* _extract_operation_type gives for every other implementation token followed
\* by the same suffix.
C27_OperationIgnoresImplementation ==
    benchmark_result # << >> =>
        \A impl \in ImplementationTokens, suffix \in OperationSuffixes :
            benchmark_name = impl \o suffix =>
                \A other \in ImplementationTokens :
                    benchmark_result[1].operation_type = _extract_operation_type(other \o suffix)

\* every stored record has a non-negative score
AllNonNegative == \A key \in DOMAIN results : ~Less(results[key].score, Zero)

\* C28 as stated: with non-negative scores only, every composite score of the
\* ranking is strictly below 85 and no row has the grade 'A+'.
C28_ReachableGrades ==
    (pc = "reported" /\ AllNonNegative) =>
        \A i \in DOMAIN ranking :
            /\ Less(ranking[i].score, Num(85, 0))
            /\ ranking[i].grade # "A+"

\* C28 amended: with non-negative scores only, every composite score of the
\* ranking is at most 85 = 30 + 40 + 10 + 5, and it is 85 only for an
\* implementation whose GET_LATENCY_1T is so small that 100 - latency rounds
\* to 100.0; so no row has the grade 'A+'.
C28_GradesBelowAPlus ==
    (pc = "reported" /\ AllNonNegative) =>
        \A i \in DOMAIN ranking :
            /\ ~Less(Num(85, 0), ranking[i].score)
            /\ ranking[i].score = Num(85, 0) =>
                  LET lkey == << "basic_operations", ranking[i].cache_impl,
                                 operation_key("GET_LATENCY", 1) >>
                  IN  lkey \in DOMAIN results /\ Absorbed(results[lkey].score)
            /\ ranking[i].grade \in {"A", "B+", "B", "C", "D"}

\* C28 witness: all five suites hold a record of an implementation, none
\* negative, and the ranking gives it the composite score 85.0 and the grade 'A'
C28_TopScore ==
    /\ pc = "reported" /\ AllNonNegative
    /\ \E i \in DOMAIN ranking :
          /\ ranking[i].score = Num(85, 0)
          /\ ranking[i].grade = "A"
          /\ \A suite_type \in Range(suite_types) :
                InSuite(results, suite_type, ranking[i].cache_impl)

\* C29: for every combination of Caffeine and JCacheX-Default get_hot scores
\* (each present or absent), ULTRA_PERF_BEST is 'JCacheX Default' exactly when
\* ULTRA_PERF_RANK is '#1'
C29_BestAgreesWithRank ==
    summary # NoneVal =>
        LET values == placeholders(summary, gaps, {}) IN
        (values.ULTRA_PERF_BEST = Text("JCacheX Default"))
        <=> (values.ULTRA_PERF_RANK = Text("#1"))

\* C30: populate_placeholders changes only the '{{NAME}}' tokens of the
\* template: the output has the template's pieces in the template's order,
\* every piece that is not a token (table rows, fixed cells, line breaks)
\* unchanged, and populate_placeholders applied to its own output returns
\* that output.
C30_OnlyTokensChange ==
    gen_pc = "written" =>
        /\ Len(populated_content) = Len(TemplateText(template_content))
        /\ \A i \in DOMAIN TemplateText(template_content) :
              TemplateText(template_content)[i].k # "token"
              => populated_content[i] = TemplateText(template_content)[i]
        /\ \A ties_up \in SUBSET ThroughputTies(summary) :
              Written(populate_placeholders(Written(populated_content), summary, gaps, ties_up))
                  = Written(populated_content)
====
